---- MODULE Spec2Model ----
(***************************************************************************)
(* Titanic question-answering backend: the keyword-routed answer engine    *)
(* (backend/data_analyzer.py), chart selection and the AI-or-fallback      *)
(* pipeline (backend/agent.py), the POST /chat endpoint (backend/main.py),  *)
(* the data loader (download_data.py), the chat of the API front-end       *)
(* (frontend/streamlit_app.py) and get_ai_response of the Streamlit AI     *)
(* variant (streamlit_ai_version.py).                                      *)
(*                                                                         *)
(* Strings are TLA+ strings; "w in s" of Python is substring containment.  *)
(* A float is a record [num, den] (the exact quotient num/den), NaN is     *)
(* den = 0.  An operation that can raise returns Return(v) or Raise(e).    *)
(***************************************************************************)
EXTENDS Integers, Sequences, FiniteSets, TLC

\* ------------------------------------------------------------------ bounds

\* longest question of the service specification, in vocabulary tokens
MaxChatWords == 2
\* longest question of the router specification, in vocabulary tokens
MaxWords == 2
\* longest question of the chart specification, in vocabulary tokens
MaxChartWords == 2
\* rows in a table handed to the statistics functions
MaxRows == 3

\* ------------------------------------------------------- Python primitives

Return(v) == [ok |-> TRUE, value |-> v]
Raise(e) == [ok |-> FALSE, exc |-> e]

\* w in s, for strings
Contains(s, w) ==
    \E i \in 1..(Len(s) - Len(w) + 1) : SubSeq(s, i, i + Len(w) - 1) = w

\* any(word in s for word in words)
AnyIn(words, s) == \E w \in words : Contains(s, w)

UpperCase ==
    [A |-> "a", B |-> "b", C |-> "c", D |-> "d", E |-> "e", F |-> "f", G |-> "g",
     H |-> "h", I |-> "i", J |-> "j", K |-> "k", L |-> "l", M |-> "m", N |-> "n",
     O |-> "o", P |-> "p", Q |-> "q", R |-> "r", S |-> "s", T |-> "t", U |-> "u",
     V |-> "v", W |-> "w", X |-> "x", Y |-> "y", Z |-> "z"]

\* str.lower()
RECURSIVE Lower(_)
Lower(s) ==
    IF s = "" THEN ""
    ELSE LET c == SubSeq(s, 1, 1)
         IN  (IF c \in DOMAIN UpperCase THEN UpperCase[c] ELSE c)
                 \o Lower(SubSeq(s, 2, Len(s)))

Whitespace == {" ", "\t", "\n"}

\* str.strip(): whitespace removed at both ends
RECURSIVE LStrip(_)
LStrip(s) ==
    IF s # "" /\ SubSeq(s, 1, 1) \in Whitespace
    THEN LStrip(SubSeq(s, 2, Len(s))) ELSE s

RECURSIVE RStrip(_)
RStrip(s) ==
    IF s # "" /\ SubSeq(s, Len(s), Len(s)) \in Whitespace
    THEN RStrip(SubSeq(s, 1, Len(s) - 1)) ELSE s

Strip(s) == LStrip(RStrip(s))

\* round(a / b) to the nearest integer, ties to even (a >= 0, b > 0)
RoundDiv(a, b) ==
    LET q == a \div b
        r == a % b
    IN  IF 2 * r < b THEN q
        ELSE IF 2 * r > b THEN q + 1
        ELSE IF q % 2 = 0 THEN q ELSE q + 1

NaN == [num |-> 0, den |-> 0]
Float(n, d) == [num |-> n, den |-> d]
IsNaN(x) == x.den = 0

\* a count t of tenths (h of hundredths) written as a decimal number
Dec1(t) == ToString(t \div 10) \o "." \o ToString(t % 10)
Dec2(h) ==
    ToString(h \div 100) \o "." \o ToString((h % 100) \div 10) \o ToString(h % 10)

\* f"{x:.1f}" and f"{x:.2f}" of a float x >= 0
Fmt1(x) == IF IsNaN(x) THEN "nan" ELSE Dec1(RoundDiv(10 * x.num, x.den))
Fmt2(x) == IF IsNaN(x) THEN "nan" ELSE Dec2(RoundDiv(100 * x.num, x.den))

\* ------------------------------------------------------------ the table

\* ages are held as multiples of 1/AgeDen years (AgeDen = 2: half years)
AgeDen == 2
Years(y) == y * AgeDen

\* one row of the CSV.  Age is <<a>> or, when missing, NoAge; Embarked is a
\* port code or, when missing, "nan"; Fare is in hundredths
NoAge == <<>>
Age(a) == <<a>>
Row(sv, sex, pc, age, fare, emb) ==
    [Survived |-> sv, Sex |-> sex, Pclass |-> pc, Age |-> age, Fare |-> fare,
     Embarked |-> emb]

\* the sum of the values of a function with a finite domain
RECURSIVE SumFn(_)
SumFn(f) ==
    IF DOMAIN f = {} THEN 0
    ELSE LET i == CHOOSE j \in DOMAIN f : TRUE
         IN  f[i] + SumFn([j \in DOMAIN f \ {i} |-> f[j]])

\* the values of a function with a finite domain, in ascending order
RECURSIVE SortFn(_)
SortFn(f) ==
    IF DOMAIN f = {} THEN <<>>
    ELSE LET i == CHOOSE j \in DOMAIN f : \A k \in DOMAIN f : f[j] <= f[k]
         IN  <<f[i]>> \o SortFn([j \in DOMAIN f \ {i} |-> f[j]])

\* Series.mean() of integer values held with a denominator: sum / count
Mean(sum, count, den) == IF count = 0 THEN NaN ELSE Float(sum, den * count)

\* the row indices of a group, and the sum of Survived over rows
Males(d) == {i \in DOMAIN d : d[i].Sex = "male"}
Females(d) == {i \in DOMAIN d : d[i].Sex = "female"}
InClass(d, c) == {i \in DOMAIN d : d[i].Pclass = c}
Known(d) == {i \in DOMAIN d : d[i].Age # NoAge}
Survivors(d, idx) == SumFn([i \in idx |-> d[i].Survived])

\* -------------------------------------------------------- TitanicAnalyzer

\* self.df.empty: the analyzer of a failed load holds pd.DataFrame(), a table
\* with no rows and no columns
Empty(d) == d = <<>>

\* BasicStats that counts only the passengers with a known age
BasicStats_KnownAgesOnly(d, survivors, male, known) ==
    [total_passengers |-> Cardinality(known),
     survivors |-> survivors,
     survival_rate |-> Float(100 * survivors, Len(d)),
     male_passengers |-> male,
     female_passengers |-> Cardinality(Females(d)),
     male_percentage |-> Float(100 * male, Len(d)),
     average_age |-> Mean(SumFn([i \in known |-> d[i].Age[1]]), Cardinality(known), AgeDen),
     average_fare |-> Mean(SumFn([i \in DOMAIN d |-> d[i].Fare]), Len(d), 100),
     classes |-> SortFn([c \in {d[i].Pclass : i \in DOMAIN d} |-> c])]

\* the dict get_basic_stats returns for a table that is not empty
BasicStats(d, survivors, male, known) ==
    [total_passengers |-> Len(d),
     survivors |-> survivors,
     survival_rate |-> Float(100 * survivors, Len(d)),
     male_passengers |-> male,
     female_passengers |-> Cardinality(Females(d)),
     male_percentage |-> Float(100 * male, Len(d)),
     average_age |-> Mean(SumFn([i \in known |-> d[i].Age[1]]), Cardinality(known), AgeDen),
     average_fare |-> Mean(SumFn([i \in DOMAIN d |-> d[i].Fare]), Len(d), 100),
     classes |-> SortFn([c \in {d[i].Pclass : i \in DOMAIN d} |-> c])]

get_basic_stats(d) ==
    IF Empty(d) THEN [error |-> "Dataset not loaded"]
    ELSE BasicStats(d, Survivors(d, DOMAIN d), Cardinality(Males(d)), Known(d))

\* groupby(col)['Survived'].agg(['count', 'sum', 'mean']).round(3) of one
\* group: the mean keeps three decimals, and *100 makes it a percentage
\* an aggregate whose count column counts the survivors
Agg_CountsSurvivors(count, sum) ==
    [count |-> sum, sum |-> sum, rate |-> Float(RoundDiv(1000 * sum, count), 10)]

Agg(count, sum) ==
    [count |-> count, sum |-> sum, rate |-> Float(RoundDiv(1000 * sum, count), 10)]
GroupAgg(d, idx) == Agg(Cardinality(idx), Survivors(d, idx))

\* the dict get_survival_by_gender builds from the two groups
GenderDict(m, f) ==
    [male_survival_rate |-> m.rate,
     female_survival_rate |-> f.rate,
     male_survivors |-> m.sum,
     female_survivors |-> f.sum,
     total_male |-> m.count,
     total_female |-> f.count]

\* .loc['male', ...] and .loc['female', ...] raise KeyError for a sex that
\* has no row, groupby('Sex') for a table without columns
get_survival_by_gender(d) ==
    IF Empty(d) \/ Males(d) = {} \/ Females(d) = {} THEN Raise("KeyError")
    ELSE Return(GenderDict(GroupAgg(d, Males(d)), GroupAgg(d, Females(d))))

ClassKey(c) == "class_" \o ToString(c)

ClassEntry(g) == [survival_rate |-> g.rate, survivors |-> g.sum, total |-> g.count]

get_survival_by_class(d) ==
    IF Empty(d) THEN Raise("KeyError")
    ELSE Return([k \in {ClassKey(d[i].Pclass) : i \in DOMAIN d} |->
                    ClassEntry(GroupAgg(d, {i \in DOMAIN d : ClassKey(d[i].Pclass) = k}))])

\* Series.median() of the sorted values s
Median(s) ==
    IF Len(s) = 0 THEN NaN
    ELSE IF Len(s) % 2 = 1 THEN Float(s[(Len(s) + 1) \div 2], AgeDen)
    ELSE Float(s[Len(s) \div 2] + s[Len(s) \div 2 + 1], 2 * AgeDen)

\* Series.std() is the square root of the sample variance (ddof = 1); the
\* model keeps the variance, whose root the code reports
Variance(n, s1, s2) ==
    IF n < 2 THEN NaN ELSE Float(n * s2 - s1 * s1, n * (n - 1) * AgeDen * AgeDen)

\* AgeStats whose seniors bucket starts after 60
AgeStats_SeniorsAbove60(s) ==
    [average_age |-> Mean(SumFn(s), Len(s), AgeDen),
     median_age |-> Median(s),
     min_age |-> IF s = <<>> THEN NaN ELSE Float(s[1], AgeDen),
     max_age |-> IF s = <<>> THEN NaN ELSE Float(s[Len(s)], AgeDen),
     age_std |-> [variance |->
                    Variance(Len(s), SumFn(s), SumFn([i \in DOMAIN s |-> s[i] * s[i]]))],
     age_ranges |->
        [children_0_12 |-> Cardinality({i \in DOMAIN s : s[i] <= Years(12)}),
         teens_13_19 |->
            Cardinality({i \in DOMAIN s : s[i] > Years(12) /\ s[i] <= Years(19)}),
         adults_20_59 |->
            Cardinality({i \in DOMAIN s : s[i] > Years(19) /\ s[i] <= Years(59)}),
         seniors_60_plus |-> Cardinality({i \in DOMAIN s : s[i] > Years(60)})]]

\* AgeStats whose teens bucket starts at 12, not after it
AgeStats_TeensFrom12(s) ==
    [average_age |-> Mean(SumFn(s), Len(s), AgeDen),
     median_age |-> Median(s),
     min_age |-> IF s = <<>> THEN NaN ELSE Float(s[1], AgeDen),
     max_age |-> IF s = <<>> THEN NaN ELSE Float(s[Len(s)], AgeDen),
     age_std |-> [variance |->
                    Variance(Len(s), SumFn(s), SumFn([i \in DOMAIN s |-> s[i] * s[i]]))],
     age_ranges |->
        [children_0_12 |-> Cardinality({i \in DOMAIN s : s[i] <= Years(12)}),
         teens_13_19 |->
            Cardinality({i \in DOMAIN s : s[i] >= Years(12) /\ s[i] <= Years(19)}),
         adults_20_59 |->
            Cardinality({i \in DOMAIN s : s[i] > Years(19) /\ s[i] <= Years(59)}),
         seniors_60_plus |-> Cardinality({i \in DOMAIN s : s[i] > Years(59)})]]

\* the dict get_age_statistics builds from age_data, given sorted as s
AgeStats(s) ==
    [average_age |-> Mean(SumFn(s), Len(s), AgeDen),
     median_age |-> Median(s),
     min_age |-> IF s = <<>> THEN NaN ELSE Float(s[1], AgeDen),
     max_age |-> IF s = <<>> THEN NaN ELSE Float(s[Len(s)], AgeDen),
     age_std |-> [variance |->
                    Variance(Len(s), SumFn(s), SumFn([i \in DOMAIN s |-> s[i] * s[i]]))],
     age_ranges |->
        [children_0_12 |-> Cardinality({i \in DOMAIN s : s[i] <= Years(12)}),
         teens_13_19 |->
            Cardinality({i \in DOMAIN s : s[i] > Years(12) /\ s[i] <= Years(19)}),
         adults_20_59 |->
            Cardinality({i \in DOMAIN s : s[i] > Years(19) /\ s[i] <= Years(59)}),
         seniors_60_plus |-> Cardinality({i \in DOMAIN s : s[i] > Years(59)})]]

\* age_data = self.df['Age'].dropna(), sorted
AgeData(d) == SortFn([i \in Known(d) |-> d[i].Age[1]])

get_age_statistics(d) ==
    IF Empty(d) THEN Raise("KeyError") ELSE Return(AgeStats(AgeData(d)))

embark_mapping == [C |-> "Cherbourg", Q |-> "Queenstown", S |-> "Southampton"]

\* the rows with port code c, and the first of them
Embarked(d, c) == {i \in DOMAIN d : d[i].Embarked = c}
FirstRow(idx) == CHOOSE i \in idx : \A j \in idx : i <= j

\* Series.value_counts(): the codes present (missing ones dropped), most
\* frequent first, equal counts in the order of first appearance
RECURSIVE value_counts(_, _)
CountFrom(d, codes, top) ==
    <<[code |-> top, count |-> Cardinality(Embarked(d, top))]>>
        \o value_counts(d, codes \ {top})
value_counts(d, codes) ==
    IF codes = {} THEN <<>>
    ELSE CountFrom(d, codes,
            CHOOSE c \in codes : \A o \in codes :
                \/ Cardinality(Embarked(d, c)) > Cardinality(Embarked(d, o))
                \/ /\ Cardinality(Embarked(d, c)) = Cardinality(Embarked(d, o))
                   /\ FirstRow(Embarked(d, c)) <= FirstRow(Embarked(d, o)))

\* embark_mapping.get(port_code, str(port_code))
PortName(code) ==
    IF code \in DOMAIN embark_mapping THEN embark_mapping[code] ELSE code

\* the items of the result dict of get_embarkation_stats in insertion
\* order, from the value counts vc
PortItems(d, vc) ==
    [i \in DOMAIN vc |->
        [port |-> PortName(vc[i].code),
         count |-> vc[i].count,
         percentage |-> Float(100 * vc[i].count, Len(d))]]
EmbarkItems(d) ==
    PortItems(d, value_counts(d, {d[i].Embarked : i \in DOMAIN d} \ {"nan"}))

\* the dict with the items it
PortDict(it) ==
    [p \in {it[i].port : i \in DOMAIN it} |->
        [count |-> it[CHOOSE i \in DOMAIN it : it[i].port = p].count,
         percentage |-> it[CHOOSE i \in DOMAIN it : it[i].port = p].percentage]]

get_embarkation_stats(d) ==
    IF Empty(d) THEN Raise("KeyError") ELSE Return(PortDict(EmbarkItems(d)))

\* the three renderers; the HTML is kept as the figure's title and series
create_age_histogram_plotly(d) ==
    IF Empty(d) THEN Raise("KeyError")
    ELSE Return([title |-> "Age Distribution of Titanic Passengers", x |-> AgeData(d)])

create_survival_by_class_chart(d) ==
    IF Empty(d) THEN Raise("KeyError")
    ELSE Return([title |-> "Survival Rate by Passenger Class",
                 x |-> <<"1st Class", "2nd Class", "3rd Class">>,
                 y |-> [c \in {d[i].Pclass : i \in DOMAIN d} |->
                          Mean(100 * Survivors(d, InClass(d, c)),
                               Cardinality(InClass(d, c)), 1)]])

create_gender_survival_chart(d) ==
    IF Empty(d) \/ Females(d) = {} \/ Males(d) = {} THEN Raise("KeyError")
    ELSE Return([title |-> "Survival Rate by Gender",
                 x |-> <<"Female", "Male">>,
                 y |-> <<Mean(100 * Survivors(d, Females(d)), Cardinality(Females(d)), 1),
                         Mean(100 * Survivors(d, Males(d)), Cardinality(Males(d)), 1)>>])

\* ", ".join(f"{port}: {data['count']}" for port, data in items)
RECURSIVE JoinPorts(_)
JoinPorts(it) ==
    IF it = <<>> THEN ""
    ELSE it[1].port \o ": " \o ToString(it[1].count)
           \o (IF Len(it) = 1 THEN "" ELSE ", " \o JoinPorts(Tail(it)))

\* the keyword lists of answer_question
CountWords == {"total", "how many", "count"}
GenderWords == {"male", "female", "gender"}
AgeWords == {"age", "old", "young"}
FareWords == {"fare", "ticket", "price", "cost"}
EmbarkWords == {"embark", "port", "board"}
ClassWords == {"class", "first", "second", "third"}

\* the return statements of answer_question, one per branch
CountAnswer(d) ==
    Return([answer |-> "There were " \o ToString(Len(d))
                          \o " passengers on the Titanic.",
            data |-> get_basic_stats(d)])

GenderPercentageAnswer(d, gs) ==
    Return([answer |-> ToString(gs.total_male) \o " passengers were male, which is "
                          \o Fmt1(Float(100 * gs.total_male, Len(d)))
                          \o "% of all passengers.",
            data |-> gs])

\* a gender survival return that leaves the male rate out
GenderSurvivalAnswer_FemaleOnly(gs) ==
    Return([answer |-> "Female survival rate: " \o Fmt1(gs.female_survival_rate) \o "%",
            data |-> gs])

GenderSurvivalAnswer(gs) ==
    Return([answer |-> "Female survival rate: " \o Fmt1(gs.female_survival_rate)
                          \o "%, Male survival rate: "
                          \o Fmt1(gs.male_survival_rate) \o "%",
            data |-> gs])

AgeAnswer(as) ==
    Return([answer |-> "The average age of passengers was "
                          \o Fmt1(as.average_age) \o " years.",
            data |-> as])

\* basic_stats['average_fare'] is a KeyError on the dict of an empty table
FareAnswer(bs) ==
    IF "average_fare" \notin DOMAIN bs THEN Raise("KeyError")
    ELSE Return([answer |-> "The average ticket fare was £"
                               \o Fmt2(bs.average_fare) \o ".",
                 data |-> bs])

EmbarkAnswer(d, es) ==
    IF ~es.ok THEN es
    ELSE Return([answer |-> "Passengers embarked from: " \o JoinPorts(EmbarkItems(d)),
                 data |-> es.value])

\* class_stats['class_1'], ['class_2'], ['class_3'] are KeyErrors for a
\* class that has no row
ClassAnswer(cs) ==
    IF ~cs.ok THEN cs
    ELSE IF {"class_1", "class_2", "class_3"} \subseteq DOMAIN cs.value
    THEN Return([answer |-> "Class survival rates: 1st: "
                      \o Fmt1(cs.value["class_1"].survival_rate) \o "%, 2nd: "
                      \o Fmt1(cs.value["class_2"].survival_rate) \o "%, 3rd: "
                      \o Fmt1(cs.value["class_3"].survival_rate) \o "%",
                 data |-> cs.value])
    ELSE Raise("KeyError")

\* a default return that attaches no data
DefaultAnswer_NoData(d) ==
    Return([answer |-> "I can help you analyze the Titanic dataset. Try asking about passenger demographics, survival rates, ages, fares, or embarkation ports.",
            data |-> <<>>])

DefaultAnswer(d) ==
    Return([answer |-> "I can help you analyze the Titanic dataset. Try asking about passenger demographics, survival rates, ages, fares, or embarkation ports.",
            data |-> get_basic_stats(d)])

\* a gender branch that tests 'survival' before 'percentage'
GenderBranch_SurvivalFirst(d, ql, gs) ==
    IF ~gs.ok THEN gs
    ELSE IF Contains(ql, "survival") THEN GenderSurvivalAnswer(gs.value)
    ELSE IF Contains(ql, "percentage") /\ Contains(ql, "male")
    THEN GenderPercentageAnswer(d, gs.value)
    ELSE Raise("falls through")

\* the gender branch once gender_stats is computed: its two returns, or
\* "falls through" when neither condition holds
GenderBranch(d, ql, gs) ==
    IF ~gs.ok THEN gs
    ELSE IF Contains(ql, "percentage") /\ Contains(ql, "male")
    THEN GenderPercentageAnswer(d, gs.value)
    ELSE IF Contains(ql, "survival") THEN GenderSurvivalAnswer(gs.value)
    ELSE Raise("falls through")

\* the age branch once age_stats is computed
AgeBranch(ql, as) ==
    IF ~as.ok THEN as
    ELSE IF Contains(ql, "average") THEN AgeAnswer(as.value)
    ELSE Raise("falls through")

FallsThrough(r) == ~r.ok /\ r.exc = "falls through"

\* AnswerLower with the class branch placed before the embarkation branch
AnswerLower_ClassFirst(d, ql, gb, ab) ==
    IF AnyIn(CountWords, ql) /\ Contains(ql, "passenger") THEN CountAnswer(d)
    ELSE IF AnyIn(GenderWords, ql) /\ ~FallsThrough(gb) THEN gb
    ELSE IF AnyIn(AgeWords, ql) /\ ~FallsThrough(ab) THEN ab
    ELSE IF AnyIn(FareWords, ql) THEN FareAnswer(get_basic_stats(d))
    ELSE IF AnyIn(ClassWords, ql) THEN ClassAnswer(get_survival_by_class(d))
    ELSE IF AnyIn(EmbarkWords, ql) THEN EmbarkAnswer(d, get_embarkation_stats(d))
    ELSE DefaultAnswer(d)

\* TitanicAnalyzer.answer_question for the lower-cased question ql, given
\* the outcomes gb, ab of its gender and age branches
AnswerLower(d, ql, gb, ab) ==
    IF AnyIn(CountWords, ql) /\ Contains(ql, "passenger") THEN CountAnswer(d)
    ELSE IF AnyIn(GenderWords, ql) /\ ~FallsThrough(gb) THEN gb
    ELSE IF AnyIn(AgeWords, ql) /\ ~FallsThrough(ab) THEN ab
    ELSE IF AnyIn(FareWords, ql) THEN FareAnswer(get_basic_stats(d))
    ELSE IF AnyIn(EmbarkWords, ql) THEN EmbarkAnswer(d, get_embarkation_stats(d))
    ELSE IF AnyIn(ClassWords, ql) THEN ClassAnswer(get_survival_by_class(d))
    ELSE DefaultAnswer(d)

AnswerBranches(d, ql) ==
    AnswerLower(d, ql, GenderBranch(d, ql, get_survival_by_gender(d)),
                AgeBranch(ql, get_age_statistics(d)))

\* TitanicAnalyzer.answer_question: Return([answer, data]) or Raise
answer_question(d, question) == AnswerBranches(d, Lower(question))

\* ------------------------------------------------------------ TitanicAgent

\* Optional values: None, or Some(x)
None == <<>>
Some(x) == <<x>>

\* what llm.invoke hands back as ai_response.content: a str, or something
\* that is no str
PyStr(s) == [isstr |-> TRUE, text |-> s]
NotStr == [isstr |-> FALSE, text |-> ""]

viz_keywords == {"chart", "graph", "plot", "histogram", "show", "visualize", "display"}

\* ExplicitKind with the gender test placed before the class test
ExplicitKind_GenderFirst(ql) ==
    IF ~AnyIn(viz_keywords, ql) THEN "none"
    ELSE IF AnyIn({"age"}, ql) THEN "age_histogram"
    ELSE IF AnyIn({"gender", "male", "female"}, ql) THEN "gender_survival"
    ELSE IF AnyIn({"class", "survival"}, ql) THEN "survival_by_class"
    ELSE "none"

\* the first if block of _determine_chart_type, "none" when it returns nothing
ExplicitKind(ql) ==
    IF ~AnyIn(viz_keywords, ql) THEN "none"
    ELSE IF AnyIn({"age"}, ql) THEN "age_histogram"
    ELSE IF AnyIn({"class", "survival"}, ql) THEN "survival_by_class"
    ELSE IF AnyIn({"gender", "male", "female"}, ql) THEN "gender_survival"
    ELSE "none"

\* the second if block, "none" when it reaches the last return
ImplicitKind(ql) ==
    IF AnyIn({"age"}, ql) /\ Contains(ql, "distribution") THEN "age_histogram"
    ELSE IF Contains(ql, "class") /\ AnyIn({"survival", "survive"}, ql)
    THEN "survival_by_class"
    ELSE IF AnyIn({"gender", "male", "female"}, ql) /\ Contains(ql, "survival")
    THEN "gender_survival"
    ELSE "none"

KindOr(explicit, ql) == IF explicit # "none" THEN explicit ELSE ImplicitKind(ql)

\* the chart kind _determine_chart_type settles on for a lower-cased question
ChartKind(ql) == KindOr(ExplicitKind(ql), ql)

\* return statements that render the class chart for the gender kind
Render_ClassChartForGender(d, kind) ==
    CASE kind = "age_histogram" -> create_age_histogram_plotly(d)
      [] kind = "survival_by_class" -> create_survival_by_class_chart(d)
      [] kind = "gender_survival" -> create_survival_by_class_chart(d)
      [] OTHER -> Return(None)

\* the renderer each return statement of _determine_chart_type calls
Render(d, kind) ==
    CASE kind = "age_histogram" -> create_age_histogram_plotly(d)
      [] kind = "survival_by_class" -> create_survival_by_class_chart(d)
      [] kind = "gender_survival" -> create_gender_survival_chart(d)
      [] OTHER -> Return(None)

\* the pair a return statement of _determine_chart_type hands back
ChartPair(kind, html) ==
    IF kind = "none" THEN Return([chart_html |-> None, chart_type |-> None])
    ELSE IF ~html.ok THEN html
    ELSE Return([chart_html |-> Some(html.value), chart_type |-> Some(kind)])

ChartFor(d, kind) == ChartPair(kind, Render(d, kind))

\* _determine_chart_type with response_lower searched for the keywords too
_determine_chart_type_ReadsResponse(d, question, ai_response) ==
    IF ~ai_response.isstr THEN Raise("AttributeError")
    ELSE ChartFor(d, ChartKind(Lower(question) \o " " \o Lower(ai_response.text)))

\* TitanicAgent._determine_chart_type: Return([chart_html, chart_type]) or
\* Raise; ai_response.lower() is evaluated and not used
_determine_chart_type(d, question, ai_response) ==
    IF ~ai_response.isstr THEN Raise("AttributeError")
    ELSE ChartFor(d, ChartKind(Lower(question)))

\* the dict _process_without_ai returns, from the outcomes of its two calls
WithoutAiResult(response, chart) ==
    IF ~response.ok THEN response
    ELSE IF ~chart.ok THEN chart
    ELSE Return([answer |-> response.value.answer,
                 data |-> response.value.data,
                 chart_html |-> chart.value.chart_html,
                 chart_type |-> chart.value.chart_type])

\* TitanicAgent._process_without_ai
_process_without_ai(d, question) ==
    WithoutAiResult(answer_question(d, question),
                    _determine_chart_type(d, question, PyStr("")))

\* context_data.update(stats) when the keyword list matches: the outcome of
\* the statistics call is Raise, or the dict with the new entries on top
Update(ctx, words, ql, stats) ==
    IF ~ctx.ok \/ ~AnyIn(words, ql) THEN ctx
    ELSE IF ~stats.ok THEN stats
    ELSE Return(stats.value @@ ctx.value)

\* a gathering that leaves the basic stats out
UpdateBasic_Skipped(ctx, basic_stats) == ctx

\* context_data.update(basic_stats), always
UpdateBasic(ctx, basic_stats) ==
    IF ~ctx.ok THEN ctx ELSE Return(basic_stats @@ ctx.value)

GatherLower(d, ql) ==
    UpdateBasic(
        Update(
            Update(
                Update(
                    Update(Return(<<>>), {"gender", "male", "female"}, ql,
                           get_survival_by_gender(d)),
                    {"class", "first", "second", "third"}, ql, get_survival_by_class(d)),
                {"age", "old", "young"}, ql, get_age_statistics(d)),
            {"embark", "port"}, ql, get_embarkation_stats(d)),
        get_basic_stats(d))

\* _process_with_ai up to the hosted call: the context_data gathered, or the
\* exception a statistics call raised
GatherContext(d, question) == GatherLower(d, Lower(question))

\* the dict _process_with_ai returns, from the content and the chart
WithAiResult(context_data, content, chart) ==
    IF ~chart.ok THEN chart
    ELSE Return([answer |-> content.text,
                 data |-> context_data,
                 chart_html |-> chart.value.chart_html,
                 chart_type |-> chart.value.chart_type])

\* _process_with_ai from the answer of the hosted call on: the result, or
\* the exception that sends it to the fallback
AfterInvoke(d, question, context_data, content) ==
    WithAiResult(context_data, content, _determine_chart_type(d, question, content))

\* an except clause that answers without selecting a chart
Fallback_NoChart(d, question) ==
    WithoutAiResult(answer_question(d, question),
                    Return([chart_html |-> None, chart_type |-> None]))

\* the except clause of _process_with_ai
Fallback(d, question) == _process_without_ai(d, question)

\* the try block's result r, or the except clause's
OrFallback(r, d, question) == IF r.ok THEN r ELSE Fallback(d, question)

\* __init__ that builds the model client whatever the credential
TitanicAgent_init_AlwaysAi(key) ==
    [use_ai |-> TRUE, llm |-> Some("ChatGoogleGenerativeAI")]

\* TitanicAgent.__init__: use_ai and llm, from the credential
TitanicAgent_init(key) ==
    IF key # "" THEN [use_ai |-> TRUE, llm |-> Some("ChatGoogleGenerativeAI")]
    ELSE [use_ai |-> FALSE, llm |-> None]

\* the test of process_query: whether the query goes to _process_with_ai
TakesAiPath(a) == a.use_ai /\ a.llm # None

\* ------------------------------------------------------------- the inputs

\* tables the analyzer may hold: none (the load failed), a table with every
\* sex, class and port, a table without women, a table without second class
Reference ==
    <<Row(1, "female", 1, Age(Years(38)), 7128, "C"),
      Row(0, "male", 3, Age(Years(22)), 725, "S"),
      Row(1, "female", 3, Age(Years(59) + 1), 792, "S"),
      Row(0, "male", 1, NoAge, 5000, "nan"),
      Row(1, "male", 2, Age(Years(12)), 1300, "Q"),
      Row(0, "female", 2, Age(Years(60)), 2100, "S"),
      Row(0, "male", 3, Age(Years(19)), 805, "X")>>
MenOnly ==
    <<Row(0, "male", 1, NoAge, 5000, "S"),
      Row(1, "male", 2, NoAge, 1300, "C"),
      Row(0, "male", 3, NoAge, 725, "S")>>
NoSecondClass ==
    <<Row(1, "female", 1, Age(Years(38)), 7128, "C"),
      Row(0, "male", 3, Age(Years(22)), 725, "S")>>
SampleDatasets == {<<>>, Reference, MenOnly, NoSecondClass}

\* all strings of at most n tokens of a vocabulary
RECURSIVE Questions(_, _)
Questions(vocab, n) ==
    IF n = 0 THEN {""}
    ELSE LET shorter == Questions(vocab, n - 1)
         IN  shorter \cup {q \o w : q \in shorter, w \in vocab}

ChatVocab ==
    {" ", "How many", "passenger", "Female", "survival", "age", "average",
     "show", "class", "port"}
ChatQuestions == Questions(ChatVocab, MaxChatWords)

\* what the hosted model may answer, and how the call may fail
AiContents == {PyStr("Most women survived."), PyStr("Here is the age distribution."), NotStr}
AiErrors == {"network error", "quota exceeded", "auth error"}

\* ------------------------------------------------------------- the state

VARIABLES
    df,             \* the table of the analyzers (agent.analyzer.df, analyzer.df)
    api_key,        \* GEMINI_API_KEY
    agent,          \* the TitanicAgent: use_ai, llm
    pc,             \* the chat handler: "idle", or "llm" inside llm.invoke
    question,       \* the question of the last POST /chat
    context_data,   \* context_data of _process_with_ai during the hosted call
    agent_calls,    \* calls of process_query for the last POST /chat
    llm_calls,      \* calls of llm.invoke for the last POST /chat
    ai_error,       \* the exception the except clause of _process_with_ai caught
    outcome,        \* what process_query returned or raised, None before
    http,           \* the response to the last POST /chat, None while pending
    client,         \* send_chat_request: waiting, and what it returned
    dataset_resp,   \* the response to the last GET request
    call,           \* the last direct call of an analyzer or agent function
    probe,          \* the first call of _determine_chart_type, remembered
    repeat,         \* the last call of _determine_chart_type after the first
    file,           \* what is at TITANIC_DATA_PATH
    loader,         \* load_titanic_data: where it is, what it did and returned
    session         \* st.session_state of the API front-end, and its last run

vars ==
    <<df, api_key, agent, pc, question, context_data, agent_calls, llm_calls,
      ai_error, outcome, http, client, dataset_resp, call, probe, repeat, file,
      loader, session>>

\* TITANIC_DATA_PATH: no file, a CSV file with its rows (none for a file
\* that has only the header line), or a file pd.read_csv cannot parse
Absent == [kind |-> "absent", rows |-> <<>>]
Unparsable == [kind |-> "unparsable", rows |-> <<>>]
CsvFile(rows) == [kind |-> "csv", rows |-> rows]

\* load_titanic_data not running; loads is the number of calls made
LoaderIdle(loads) ==
    [pc |-> "idle", caller |-> "", loads |-> loads, existed |-> FALSE,
     downloads |-> 0, download_ok |-> FALSE, printed |-> "", result |-> None]

\* st.session_state of a new browser session once the script has set its
\* defaults: the history, the counter, the two keys not there; and run, the
\* widget inputs of the latest script run (none yet), and cleared, whether
\* the history was cleared in this session
NoRun == [button |-> "none", text |-> "", backend_status |-> FALSE, posted |-> FALSE]
NewSession ==
    [chat_history |-> <<>>, message_counter |-> 0,
     last_processed_question |-> None, last_quick_action |-> None,
     run |-> NoRun, cleared |-> FALSE]

\* HTTPException(status_code, detail) leaving an endpoint
HttpError(status, detail) == [status |-> status, detail |-> detail]

\* the end of chat(): ChatResponse for a result, and the except clause, which
\* turns every exception into a 500
ChatReply(r) ==
    IF r.ok
    THEN [status |-> 200,
          body |-> [answer |-> r.value.answer, data |-> r.value.data,
                    chart_html |-> r.value.chart_html,
                    chart_type |-> r.value.chart_type]]
    ELSE HttpError(500, "Error processing question: " \o r.exc)

\* chat() for an empty question: HTTPException(400) is raised inside the try
\* block, and the except clause catches it like any other exception
EmptyQuestionReply ==
    ChatReply(Raise("400: Question cannot be empty"))

\* the state once main.py is imported: the table loaded or not, the agent
\* built from the credential
Init ==
    /\ df \in SampleDatasets
    /\ api_key \in {"", "key"}
    /\ agent = TitanicAgent_init(api_key)
    /\ pc = "idle"
    /\ question = ""
    /\ context_data = <<>>
    /\ agent_calls = 0
    /\ llm_calls = 0
    /\ ai_error = None
    /\ outcome = None
    /\ http = None
    /\ client = [waiting |-> FALSE, result |-> None]
    /\ dataset_resp = None
    /\ call = None
    /\ probe = None
    /\ repeat = None
    /\ file = (IF Empty(df) THEN Absent ELSE CsvFile(df))
    /\ loader = LoaderIdle(1)
    /\ session = NewSession

\* process_query has its result r: chat() answers the request
Finish(r) ==
    /\ outcome' = Some(r)
    /\ http' = Some(ChatReply(r))
    /\ pc' = "idle"
    /\ context_data' = <<>>

\* chat() once the question passed the empty test: process_query, with g
\* the outcome of gathering context_data
Process(q, g) ==
    /\ agent_calls' = 1
    /\ IF TakesAiPath(agent) /\ g.ok
       THEN /\ pc' = "llm"
            /\ llm_calls' = 1
            /\ context_data' = g.value
            /\ ai_error' = None
            /\ outcome' = None
            /\ http' = None
       ELSE /\ llm_calls' = 0
            /\ ai_error' = IF TakesAiPath(agent) THEN Some(g.exc) ELSE None
            /\ Finish(IF TakesAiPath(agent) THEN Fallback(df, q)
                      ELSE _process_without_ai(df, q))

\* chat() for an empty question: process_query is not reached
Reject ==
    /\ http' = Some(EmptyQuestionReply)
    /\ outcome' = None
    /\ ai_error' = None
    /\ agent_calls' = 0
    /\ llm_calls' = 0
    /\ UNCHANGED <<pc, context_data>>

\* a chat() whose statistics drop the rows with a missing age in place
Chat_DropsMissingAges(q) ==
    /\ pc = "idle"
    /\ ~client.waiting
    /\ client.result = None
    /\ question' = q
    /\ client' = [waiting |-> TRUE, result |-> None]
    /\ IF Strip(q) = "" THEN Reject ELSE Process(q, GatherContext(df, q))
    /\ df' = SelectSeq(df, LAMBDA r : r.Age # NoAge)
    /\ UNCHANGED <<session, file, loader, api_key, agent, dataset_resp, call, probe, repeat>>

\* POST /chat {question: q} from send_chat_request: chat() runs to its end,
\* or into llm.invoke
Chat(q) ==
    /\ pc = "idle"
    /\ ~client.waiting
    /\ client.result = None
    /\ question' = q
    /\ client' = [waiting |-> TRUE, result |-> None]
    /\ IF Strip(q) = "" THEN Reject ELSE Process(q, GatherContext(df, q))
    /\ UNCHANGED <<session, file, loader, df, api_key, agent, dataset_resp, call, probe, repeat>>

\* the rest of the try block of _process_with_ai had the outcome r
AfterTry(r) ==
    /\ ai_error' = IF r.ok THEN None ELSE Some(r.exc)
    /\ Finish(OrFallback(r, df, question))

\* llm.invoke returns: the rest of the try block, and the fallback when it
\* raises
LlmRespond(content) ==
    /\ pc = "llm"
    /\ AfterTry(AfterInvoke(df, question, context_data, content))
    /\ UNCHANGED <<session, file, loader, df, api_key, agent, question, agent_calls, llm_calls,
                   client, dataset_resp, call, probe, repeat>>

\* an except clause that calls the hosted model again
LlmRaise_Retry(e) ==
    /\ pc = "llm"
    /\ ai_error' = Some(e)
    /\ llm_calls' = llm_calls + 1
    /\ UNCHANGED <<session, file, loader, df, api_key, agent, pc, question, context_data, agent_calls,
                   outcome, http, client, dataset_resp, call, probe, repeat>>

\* llm.invoke raises: the except clause
LlmRaise(e) ==
    /\ pc = "llm"
    /\ ai_error' = Some(e)
    /\ Finish(Fallback(df, question))
    /\ UNCHANGED <<session, file, loader, df, api_key, agent, question, agent_calls, llm_calls,
                   client, dataset_resp, call, probe, repeat>>

\* response.text of an error response: the JSON body FastAPI sends for an
\* HTTPException
ResponseText(h) == "{\"detail\":\"" \o h.detail \o "\"}"

\* requests.post returns in send_chat_request
ClientReceive ==
    /\ client.waiting
    /\ http # None
    /\ client' = [waiting |-> FALSE,
                  result |-> Some(IF http[1].status = 200 THEN http[1].body
                                  ELSE [error |-> "API Error " \o ToString(http[1].status)
                                                     \o ": " \o ResponseText(http[1])])]
    /\ UNCHANGED <<session, file, loader, df, api_key, agent, pc, question, context_data, agent_calls,
                   llm_calls, ai_error, outcome, http, dataset_resp, call, probe,
                   repeat>>

\* requests.post(timeout=30) gives up while chat() is still inside llm.invoke
ClientTimeout ==
    /\ client.waiting
    /\ pc = "llm"
    /\ client' = [waiting |-> FALSE,
                  result |-> Some([error |-> "Request timed out. The server might be busy processing your request."])]
    /\ UNCHANGED <<session, file, loader, df, api_key, agent, pc, question, context_data, agent_calls,
                   llm_calls, ai_error, outcome, http, dataset_resp, call, probe,
                   repeat>>

\* send_chat_request has returned and chat() is over: what they held of the
\* request is gone, the next question can be sent
RequestDone ==
    /\ pc = "idle"
    /\ ~client.waiting
    /\ client.result # None
    /\ question' = ""
    /\ agent_calls' = 0
    /\ llm_calls' = 0
    /\ ai_error' = None
    /\ outcome' = None
    /\ http' = None
    /\ client' = [waiting |-> FALSE, result |-> None]
    /\ UNCHANGED <<session, file, loader, df, api_key, agent, pc, context_data, dataset_resp, call, probe,
                   repeat>>

\* the three GET /dataset/... endpoints: the analyzer's result, or a 500 for
\* an exception
DatasetReply(path, r, what) ==
    IF r.ok THEN [path |-> path, status |-> 200, body |-> r.value]
    ELSE [path |-> path, status |-> 500,
          detail |-> "Error getting " \o what \o ": " \o r.exc]

DatasetEndpoint(path) ==
    CASE path = "/dataset/stats" ->
            DatasetReply(path, Return(get_basic_stats(df)), "stats")
      [] path = "/dataset/survival/gender" ->
            DatasetReply(path, get_survival_by_gender(df), "gender stats")
      [] path = "/dataset/survival/class" ->
            DatasetReply(path, get_survival_by_class(df), "class stats")

DatasetPaths == {"/dataset/stats", "/dataset/survival/gender", "/dataset/survival/class"}

\* GET /dataset/...: served when the event loop is not inside chat()
DatasetGet(path) ==
    /\ pc = "idle"
    /\ dataset_resp = None
    /\ dataset_resp' = Some(DatasetEndpoint(path))
    /\ UNCHANGED <<session, file, loader, df, api_key, agent, pc, question, context_data, agent_calls,
                   llm_calls, ai_error, outcome, http, client, call, probe, repeat>>

\* HealthResponse(status, message, dataset_loaded)
HealthResponse(status, message, dataset_loaded) ==
    [status |-> status, message |-> message, dataset_loaded |-> dataset_loaded]

\* root() and health_check()
HealthEndpoint(path) ==
    CASE path = "/" ->
            HealthResponse("healthy", "Titanic Chatbot API is running", ~Empty(df))
      [] path = "/health" ->
            HealthResponse(IF ~Empty(df) THEN "healthy" ELSE "warning",
                           IF ~Empty(df) THEN "API is running" ELSE "Dataset not loaded",
                           ~Empty(df))

HealthPaths == {"/", "/health"}

\* GET / and GET /health: served when the event loop is not inside chat()
HealthGet(path) ==
    /\ pc = "idle"
    /\ dataset_resp = None
    /\ dataset_resp' = Some([path |-> path, status |-> 200, body |-> HealthEndpoint(path)])
    /\ UNCHANGED <<session, file, loader, df, api_key, agent, pc, question, context_data, agent_calls,
                   llm_calls, ai_error, outcome, http, client, call, probe, repeat>>

\* the caller of a GET endpoint has its response
DatasetDone ==
    /\ dataset_resp # None
    /\ dataset_resp' = None
    /\ UNCHANGED <<session, file, loader, df, api_key, agent, pc, question, context_data, agent_calls,
                   llm_calls, ai_error, outcome, http, client, call, probe, repeat>>

Next ==
    \/ \E q \in ChatQuestions : Chat(q)
    \/ \E c \in AiContents : LlmRespond(c)
    \/ \E e \in AiErrors : LlmRaise(e)
    \/ ClientReceive
    \/ ClientTimeout
    \/ RequestDone
    \/ \E p \in DatasetPaths : DatasetGet(p)
    \/ \E p \in HealthPaths : HealthGet(p)
    \/ DatasetDone

Spec == Init /\ [][Next]_vars

\* ------------------------------------------- the functions, called directly

RouterVocab ==
    {"How Many passengers ", "total ", "female survival ", "percentage ",
     "gender ", "average age ", "young ", "ticket fare ", "port ", "first class ",
     "show ", "board ", "distribution ", "survive ", "male "}
RouterQuestions == Questions(RouterVocab, MaxWords)

Called(fn, q, r, out) ==
    Some([fn |-> fn, question |-> q, ai_response |-> r, outcome |-> out])

\* analyzer.answer_question(q)
CallAnswerQuestion(q) ==
    /\ call = None
    /\ call' = Called("answer_question", q, PyStr(""), answer_question(df, q))
    /\ UNCHANGED <<session, file, loader, df, api_key, agent, pc, question, context_data, agent_calls,
                   llm_calls, ai_error, outcome, http, client, dataset_resp, probe,
                   repeat>>

\* agent._determine_chart_type(q, r)
CallDetermineChart(q, r) ==
    /\ call = None
    /\ call' = Called("_determine_chart_type", q, r, _determine_chart_type(df, q, r))
    /\ UNCHANGED <<session, file, loader, df, api_key, agent, pc, question, context_data, agent_calls,
                   llm_calls, ai_error, outcome, http, client, dataset_resp, probe,
                   repeat>>

\* agent.process_query(q) of an agent built without a credential
CallProcessQuery(q) ==
    /\ call = None
    /\ ~TakesAiPath(agent)
    /\ call' = Called("process_query", q, PyStr(""), _process_without_ai(df, q))
    /\ UNCHANGED <<session, file, loader, df, api_key, agent, pc, question, context_data, agent_calls,
                   llm_calls, ai_error, outcome, http, client, dataset_resp, probe,
                   repeat>>

\* _process_with_ai(q) up to the hosted call: context_data gathered
CallGatherContext(q) ==
    /\ call = None
    /\ TakesAiPath(agent)
    /\ call' = Called("_process_with_ai", q, PyStr(""), GatherContext(df, q))
    /\ UNCHANGED <<session, file, loader, df, api_key, agent, pc, question, context_data,
                   agent_calls, llm_calls, ai_error, outcome, http, client,
                   dataset_resp, probe, repeat>>

NextRouter ==
    \/ \E q \in RouterQuestions : CallAnswerQuestion(q)
    \/ \E q \in RouterQuestions, r \in AiContents : CallDetermineChart(q, r)
    \/ \E q \in RouterQuestions : CallProcessQuery(q)
    \/ \E q \in RouterQuestions : CallGatherContext(q)

SpecRouter == Init /\ [][NextRouter]_vars

ChartVocab == {"show ", "age ", "class ", "female ", "survival ", "distribution "}
ChartQuestions == Questions(ChartVocab, MaxChartWords)
OtherQuestions == Questions(ChartVocab, 1)

\* the first call of _determine_chart_type on this agent
FirstChartCall(q, r) ==
    /\ probe = None
    /\ probe' = Some([question |-> q, ai_response |-> r,
                      outcome |-> _determine_chart_type(df, q, r)])
    /\ UNCHANGED <<session, file, loader, df, api_key, agent, pc, question, context_data, agent_calls,
                   llm_calls, ai_error, outcome, http, client, dataset_resp, call,
                   repeat>>

\* a later call, with the same question text or with another one
LaterChartCall(q, r) ==
    /\ probe # None
    /\ repeat' = Some([same |-> q = probe[1].question, ai_response |-> r,
                       outcome |-> _determine_chart_type(df, q, r)])
    /\ UNCHANGED <<session, file, loader, df, api_key, agent, pc, question, context_data, agent_calls,
                   llm_calls, ai_error, outcome, http, client, dataset_resp, call,
                   probe>>

\* the question of the first call again, or another question
LaterQuestions == OtherQuestions \cup {probe[i].question : i \in DOMAIN probe}

NextChart ==
    \/ \E q \in ChartQuestions, r \in AiContents : FirstChartCall(q, r)
    \/ \E q \in LaterQuestions, r \in AiContents : LaterChartCall(q, r)

SpecChart == Init /\ [][NextChart]_vars

\* ------------------------------------------------- statistics functions

\* rows a table is made of: both sexes, the three classes, ages missing, on
\* and next to the bucket limits, ports known, unknown to embark_mapping and
\* missing
StatRows ==
    {Row(1, "female", 1, Age(Years(12)), 7128, "C"),
     Row(0, "male", 3, NoAge, 725, "S"),
     Row(1, "male", 2, Age(Years(59) + 1), 1300, "nan"),
     Row(0, "female", 3, Age(Years(60)), 805, "Q"),
     Row(0, "male", 1, Age(Years(19) + 1), 5000, "S"),
     Row(1, "female", 2, Age(Years(13)), 2100, "X")}

RECURSIVE Tables(_)
Tables(n) ==
    IF n = 0 THEN {<<>>}
    ELSE Tables(n - 1) \cup {Append(d, r) : d \in {e \in Tables(n - 1) : Len(e) = n - 1},
                                               r \in StatRows}

StatDatasets == Tables(MaxRows)

\* the analyzer built on a table, nothing called yet
InitStats ==
    /\ df \in StatDatasets
    /\ api_key = ""
    /\ agent = TitanicAgent_init(api_key)
    /\ pc = "idle"
    /\ question = ""
    /\ context_data = <<>>
    /\ agent_calls = 0
    /\ llm_calls = 0
    /\ ai_error = None
    /\ outcome = None
    /\ http = None
    /\ client = [waiting |-> FALSE, result |-> None]
    /\ dataset_resp = None
    /\ call = None
    /\ probe = None
    /\ repeat = None
    /\ file = (IF Empty(df) THEN Absent ELSE CsvFile(df))
    /\ loader = LoaderIdle(1)
    /\ session = NewSession

StatFunctions ==
    {"get_basic_stats", "get_survival_by_gender", "get_survival_by_class",
     "get_age_statistics", "get_embarkation_stats"}

StatResult(d, fn) ==
    CASE fn = "get_basic_stats" -> Return(get_basic_stats(d))
      [] fn = "get_survival_by_gender" -> get_survival_by_gender(d)
      [] fn = "get_survival_by_class" -> get_survival_by_class(d)
      [] fn = "get_age_statistics" -> get_age_statistics(d)
      [] fn = "get_embarkation_stats" -> get_embarkation_stats(d)

\* analyzer.<fn>()
CallStat(fn) ==
    /\ call = None
    /\ call' = Called(fn, "", PyStr(""), StatResult(df, fn))
    /\ UNCHANGED <<session, file, loader, df, api_key, agent, pc, question, context_data, agent_calls,
                   llm_calls, ai_error, outcome, http, client, dataset_resp, probe,
                   repeat>>

NextStats == \E fn \in StatFunctions : CallStat(fn)

SpecStats == InitStats /\ [][NextStats]_vars

\* ------------------------------------------------------ load_titanic_data

\* calls of load_titanic_data in one behaviour
MaxLoads == 3

\* pd.read_csv(TITANIC_DATA_PATH)
read_csv(f) ==
    CASE f.kind = "csv" -> Return(f.rows)
      [] f.kind = "unparsable" -> Raise("ParserError")
      [] f.kind = "absent" -> Raise("FileNotFoundError")

\* what requests.get(TITANIC_DATA_URL) and raise_for_status() can come to:
\* an exception, or a response whose text is written to the file
Bodies == {CsvFile(d) : d \in SampleDatasets} \cup {Unparsable}
DownloadErrors == {"ConnectionError", "HTTPError"}

\* the state before data_analyzer is imported: the file there or not
InitLoad ==
    /\ file \in {Absent} \cup Bodies
    /\ loader = LoaderIdle(0)
    /\ session = NewSession
    /\ df = <<>>
    /\ api_key = ""
    /\ agent = TitanicAgent_init(api_key)
    /\ pc = "idle"
    /\ question = ""
    /\ context_data = <<>>
    /\ agent_calls = 0
    /\ llm_calls = 0
    /\ ai_error = None
    /\ outcome = None
    /\ http = None
    /\ client = [waiting |-> FALSE, result |-> None]
    /\ dataset_resp = None
    /\ call = None
    /\ probe = None
    /\ repeat = None

\* the callers of load_titanic_data: the module-level load of data_analyzer
\* comes first, test_data_loading of test_setup may follow
Callers == {"data_analyzer", "test_setup"}

\* load_titanic_data() is called: TITANIC_DATA_PATH.exists()
LoadCall(caller) ==
    /\ loader.pc = "idle"
    /\ loader.loads < MaxLoads
    /\ caller = "data_analyzer" <=> loader.loads = 0
    /\ loader' = [pc |-> IF file = Absent THEN "download" ELSE "read",
                  caller |-> caller, loads |-> loader.loads + 1,
                  existed |-> file # Absent, downloads |-> 0,
                  download_ok |-> FALSE, printed |-> "", result |-> None]
    /\ UNCHANGED <<session, file, df, api_key, agent, pc, question, context_data,
                   agent_calls, llm_calls, ai_error, outcome, http, client,
                   dataset_resp, call, probe, repeat>>

\* a load_titanic_data that answers a failed download with an empty table
DownloadFailed_ReturnsEmpty(e) ==
    [loader EXCEPT !.pc = "done", !.downloads = @ + 1, !.printed = e,
                   !.result = Some(Return(<<>>))]

\* download_titanic_dataset() caught e, printed it and returned False:
\* load_titanic_data raises
DownloadFailed(e) ==
    [loader EXCEPT !.pc = "done", !.downloads = @ + 1, !.printed = e,
                   !.result = Some(Raise("FileNotFoundError"))]

\* download_titanic_dataset(): requests.get raises or answers an error
\* status, and the except clause returns False
DownloadRaises(e) ==
    /\ loader.pc = "download"
    /\ loader' = DownloadFailed(e)
    /\ UNCHANGED <<session, file, df, api_key, agent, pc, question, context_data,
                   agent_calls, llm_calls, ai_error, outcome, http, client,
                   dataset_resp, call, probe, repeat>>

\* download_titanic_dataset(): the response text is written to the file,
\* then pd.read_csv verifies it; a failed verification returns False and
\* leaves the file written
DownloadResponds(body) ==
    /\ loader.pc = "download"
    /\ file' = body
    /\ loader' = IF read_csv(body).ok
                 THEN [loader EXCEPT !.pc = "read", !.downloads = @ + 1,
                                     !.download_ok = TRUE]
                 ELSE DownloadFailed(read_csv(body).exc)
    /\ UNCHANGED <<session, df, api_key, agent, pc, question, context_data,
                   agent_calls, llm_calls, ai_error, outcome, http, client,
                   dataset_resp, call, probe, repeat>>

\* return pd.read_csv(TITANIC_DATA_PATH)
LoadRead ==
    /\ loader.pc = "read"
    /\ loader' = [loader EXCEPT !.pc = "done", !.result = Some(read_csv(file))]
    /\ UNCHANGED <<session, file, df, api_key, agent, pc, question, context_data,
                   agent_calls, llm_calls, ai_error, outcome, http, client,
                   dataset_resp, call, probe, repeat>>

\* the table the analyzers hold after the module-level load with outcome r:
\* pd.DataFrame() when the load raised, and when the table has no rows
ModuleTable(r) == IF r.ok /\ r.value # <<>> THEN r.value ELSE <<>>

\* load_titanic_data is over: data_analyzer keeps the table or, in its
\* except clause, an empty one; test_data_loading reports and keeps nothing
LoadReturn ==
    /\ loader.pc = "done"
    /\ loader' = [loader EXCEPT !.pc = "idle"]
    /\ df' = IF loader.caller = "data_analyzer" THEN ModuleTable(loader.result[1]) ELSE df
    /\ UNCHANGED <<session, file, api_key, agent, pc, question, context_data,
                   agent_calls, llm_calls, ai_error, outcome, http, client,
                   dataset_resp, call, probe, repeat>>

NextLoad ==
    \/ \E c \in Callers : LoadCall(c)
    \/ \E e \in DownloadErrors : DownloadRaises(e)
    \/ \E b \in Bodies : DownloadResponds(b)
    \/ LoadRead
    \/ LoadReturn

SpecLoad == InitLoad /\ [][NextLoad]_vars

\* ------------------------------------- process_query in its three modes

\* process_query of an agent built from the credential key, with llm the
\* outcome of llm.invoke should the query reach it: Return(content) or Raise
process_query(key, d, q, llm) ==
    IF ~TakesAiPath(TitanicAgent_init(key)) THEN _process_without_ai(d, q)
    ELSE IF ~GatherContext(d, q).ok \/ ~llm.ok THEN Fallback(d, q)
    ELSE OrFallback(AfterInvoke(d, q, GatherContext(d, q).value,
                                llm.value),
                    d, q)

\* ------------------------------------------- streamlit_ai_version.py

\* f"{x:.0f}" of a float x >= 0
Fmt0(x) == IF IsNaN(x) THEN "nan" ELSE ToString(RoundDiv(x.num, x.den))

\* the mean of Survived over the rows idx, times 100
RateOf(d, idx) == Mean(100 * Survivors(d, idx), Cardinality(idx), 1)

\* the three figures of the AI variant, kept as title and series
create_survival_chart(d) ==
    IF Empty(d) \/ Females(d) = {} \/ Males(d) = {} THEN Raise("KeyError")
    ELSE Return([title |-> "Survival Rate by Gender",
                 x |-> <<"Female", "Male">>,
                 y |-> <<RateOf(d, Females(d)), RateOf(d, Males(d))>>])

create_age_histogram(d) ==
    IF Empty(d) THEN Raise("ValueError")
    ELSE Return([title |-> "Age Distribution of Titanic Passengers", x |-> AgeData(d)])

\* px.bar with three labels: the rates of fewer classes do not fit them
create_class_chart(d) ==
    IF Empty(d) THEN Raise("KeyError")
    ELSE IF {d[i].Pclass : i \in DOMAIN d} # {1, 2, 3} THEN Raise("ValueError")
    ELSE Return([title |-> "Survival Rate by Passenger Class",
                 x |-> <<"1st Class", "2nd Class", "3rd Class">>,
                 y |-> [c \in {1, 2, 3} |-> RateOf(d, InClass(d, c))]])

\* a figure, or Return(None)
Figure(fig) == IF fig.ok THEN Return(Some(fig.value)) ELSE fig

\* get_chart_for_question: the figure of the first keyword list that matches
get_chart_for_question(q, d) ==
    IF AnyIn({"gender", "male", "female", "men", "women"}, Lower(q))
    THEN Figure(create_survival_chart(d))
    ELSE IF AnyIn({"age", "young", "old"}, Lower(q))
    THEN Figure(create_age_histogram(d))
    ELSE IF AnyIn({"class", "first", "second", "third"}, Lower(q))
    THEN Figure(create_class_chart(d))
    ELSE Return(None)

\* the sentences of get_fallback_response on a table with rows
SurvivedSentence(total, survivors) ==
    "**" \o ToString(survivors) \o " passengers survived out of " \o ToString(total)
        \o " total passengers** (" \o Fmt1(Float(100 * survivors, total))
        \o "% survival rate). The tragedy claimed " \o ToString(total - survivors)
        \o " lives."

GenderSentence(d) ==
    "**Gender played a crucial role in survival**: Women had a "
        \o Fmt1(RateOf(d, Females(d))) \o "% survival rate, while men had only "
        \o Fmt1(RateOf(d, Males(d)))
        \o "%. This reflects the 'women and children first' evacuation protocol."

AgeSentence(s) ==
    "**Age distribution**: The average passenger age was "
        \o Fmt1(Mean(SumFn(s), Len(s), AgeDen)) \o " years, ranging from "
        \o Fmt0(IF s = <<>> THEN NaN ELSE Float(s[1], AgeDen)) \o " to "
        \o Fmt0(IF s = <<>> THEN NaN ELSE Float(s[Len(s)], AgeDen))
        \o " years. Age influenced survival chances significantly."

ClassSentence(d) ==
    "**Social class strongly influenced survival**: 1st class passengers had "
        \o Fmt1(RateOf(d, InClass(d, 1))) \o "% survival rate, 2nd class "
        \o Fmt1(RateOf(d, InClass(d, 2))) \o "%, and 3rd class "
        \o Fmt1(RateOf(d, InClass(d, 3))) \o "%."

OverviewSentence(d) ==
    "**Titanic Overview**: " \o ToString(Len(d)) \o " passengers, "
        \o Fmt1(RateOf(d, DOMAIN d))
        \o "% survival rate. Try asking about survival by gender, age, or passenger class for detailed insights!"

\* get_fallback_response on the lower-cased q: the text (its leading
\* pictograph left out), or the KeyError of a missing column, row label or
\* dict key
FallbackLower(ql, d) ==
    IF Empty(d) THEN Raise("KeyError")
    ELSE IF AnyIn({"alive", "total", "how many"}, ql)
    THEN Return(SurvivedSentence(Len(d), Survivors(d, DOMAIN d)))
    ELSE IF AnyIn({"gender", "male", "female", "men", "women"}, ql)
    THEN (IF Females(d) = {} \/ Males(d) = {} THEN Raise("KeyError")
          ELSE Return(GenderSentence(d)))
    ELSE IF AnyIn({"age", "young", "old"}, ql) THEN Return(AgeSentence(AgeData(d)))
    ELSE IF AnyIn({"class", "first", "second", "third"}, ql)
    THEN (IF \E c \in {1, 2, 3} : InClass(d, c) = {} THEN Raise("KeyError")
          ELSE Return(ClassSentence(d)))
    ELSE Return(OverviewSentence(d))

get_fallback_response(q, d) == FallbackLower(Lower(q), d)

\* the tuple (text, chart) of a return statement: text is evaluated first
TextAndChart(text, chart) ==
    IF ~text.ok THEN text
    ELSE IF ~chart.ok THEN chart
    ELSE Return([text |-> text.value, chart |-> chart.value])

\* a try block that returns the text with no chart
TryAi_NoChart(d, generated, chart) ==
    IF Empty(d) THEN Raise("KeyError")
    ELSE IF ~generated.ok THEN generated
    ELSE IF ~chart.ok THEN chart
    ELSE IF ~generated.value.isstr THEN Raise("ValueError")
    ELSE Return([text |-> generated.value.text, chart |-> None])

\* the try block of get_ai_response: stats['total_passengers'] of the empty
\* table's {} is a KeyError; then generate_content, the chart, response.text
TryAi(d, generated, chart) ==
    IF Empty(d) THEN Raise("KeyError")
    ELSE IF ~generated.ok THEN generated
    ELSE IF ~chart.ok THEN chart
    ELSE IF ~generated.value.isstr THEN Raise("ValueError")
    ELSE Return([text |-> generated.value.text, chart |-> chart.value])

\* get_ai_response with the model there or not and generated the outcome of
\* model.generate_content: Return(response) or Raise; response.text raises
\* for a response without text
get_ai_response(q, d, model, generated) ==
    IF model /\ TryAi(d, generated, get_chart_for_question(q, d)).ok
    THEN TryAi(d, generated, get_chart_for_question(q, d))
    ELSE TextAndChart(get_fallback_response(q, d),
                      get_chart_for_question(q, d))

\* --------------------------------------- one question, asked in two modes

\* longest question of the modes specification, in vocabulary tokens
MaxModeWords == 2

ModeVocab == {"show ", "age ", "class ", "Female ", "survival ", "total "}
ModeQuestions == Questions(ModeVocab, MaxModeWords)

\* what the hosted model does when it is called
LlmOutcomes == {Return(c) : c \in AiContents} \cup {Raise(e) : e \in AiErrors}

\* the modes of a call: no credential (no model) and the hosted model never
\* called, or a credential (a model) and one of its outcomes
NotCalled == Raise("not called")
Modes ==
    {[on |-> FALSE, llm |-> NotCalled]} \cup {[on |-> TRUE, llm |-> l] : l \in LlmOutcomes}
KeyOf(m) == IF m.on THEN "key" ELSE ""

\* the state before the first question: Init, seen from a client that holds
\* no credential of its own
InitModes == Init /\ api_key = ""

Asked(fn, q, ai, llm, out) ==
    Some([fn |-> fn, question |-> q, ai |-> ai, llm |-> llm, outcome |-> out])

\* process_query(q) of an agent built from key
AskAgent(q, key, llm) ==
    /\ probe = None
    /\ probe' = Asked("process_query", q, TakesAiPath(TitanicAgent_init(key)), llm,
                      process_query(key, df, q, llm))
    /\ UNCHANGED <<session, file, loader, df, api_key, agent, pc, question, context_data,
                   agent_calls, llm_calls, ai_error, outcome, http, client,
                   dataset_resp, call, repeat>>

\* the same question to an agent built from another key, or answered
\* otherwise by the hosted model
AskAgentAgain(key, llm) ==
    /\ probe # None
    /\ probe[1].fn = "process_query"
    /\ repeat' = Asked("process_query", probe[1].question,
                       TakesAiPath(TitanicAgent_init(key)), llm,
                       process_query(key, df, probe[1].question, llm))
    /\ UNCHANGED <<session, file, loader, df, api_key, agent, pc, question, context_data,
                   agent_calls, llm_calls, ai_error, outcome, http, client,
                   dataset_resp, call, probe>>

\* get_ai_response(q, df, model) of the Streamlit AI variant
AskVariant(q, model, llm) ==
    /\ probe = None
    /\ probe' = Asked("get_ai_response", q, model, llm,
                      get_ai_response(q, df, model, llm))
    /\ UNCHANGED <<session, file, loader, df, api_key, agent, pc, question, context_data,
                   agent_calls, llm_calls, ai_error, outcome, http, client,
                   dataset_resp, call, repeat>>

AskVariantAgain(model, llm) ==
    /\ probe # None
    /\ probe[1].fn = "get_ai_response"
    /\ repeat' = Asked("get_ai_response", probe[1].question, model, llm,
                       get_ai_response(probe[1].question, df, model, llm))
    /\ UNCHANGED <<session, file, loader, df, api_key, agent, pc, question, context_data,
                   agent_calls, llm_calls, ai_error, outcome, http, client,
                   dataset_resp, call, probe>>

NextModes ==
    \/ \E q \in ModeQuestions, m \in Modes : AskAgent(q, KeyOf(m), m.llm)
    \/ \E m \in Modes : AskAgentAgain(KeyOf(m), m.llm)
    \/ \E q \in ModeQuestions, m \in Modes : AskVariant(q, m.on, m.llm)
    \/ \E m \in Modes : AskVariantAgain(m.on, m.llm)

SpecModes == InitModes /\ [][NextModes]_vars

\* ------------------------------------------- frontend/streamlit_app.py

\* the highest message_counter a run may start an exchange from
MaxCounter == 4

\* what requests.post of send_chat_request comes to: a response with its
\* status and text, or an exception
HttpOutcomes ==
    {[kind |-> "response", status |-> 200, text |-> "{\"answer\":\"There were 7 passengers on the Titanic.\"}"],
     [kind |-> "response", status |-> 500, text |-> "{\"detail\":\"Error processing question\"}"],
     [kind |-> "ConnectionError", status |-> 0, text |-> ""],
     [kind |-> "Timeout", status |-> 0, text |-> ""],
     [kind |-> "JSONDecodeError", status |-> 200, text |-> "Expecting value"]}

\* the dict send_chat_request returns: the JSON body, or the key error
Json(text) == [key |-> "json", value |-> text]
Error(text) == [key |-> "error", value |-> text]

\* send_chat_request: every outcome of the POST becomes a dict
send_chat_request(o) ==
    CASE o.kind = "response" /\ o.status = 200 -> Json(o.text)
      [] o.kind = "response" ->
            Error("API Error " \o ToString(o.status) \o ": " \o o.text)
      [] o.kind = "ConnectionError" ->
            Error("Connection failed. Make sure the backend server is running at http://127.0.0.1:8000")
      [] o.kind = "Timeout" ->
            Error("Request timed out. The server might be busy processing your request.")
      [] OTHER -> Error("Unexpected error: " \o o.text)

WelcomeAnswer ==
    [key |-> "answer",
     value |-> "Welcome to the Titanic Dataset Chat Agent! I'm powered by Google Gemini AI and ready to help you explore the famous Titanic passenger dataset. You can ask me questions about survival rates, demographics, passenger classes, ages, fares, and much more. I can also create visualizations to help illustrate the data. Try asking something like 'What factors influenced survival on the Titanic?' to get started!"]

\* a history entry whose id leaves the counter out
Message_IdIsPrefix(prefix, counter, type, content) ==
    [id |-> prefix, type |-> type, content |-> content]

\* a history entry; the content of a user message is the text typed
Message(prefix, counter, type, content) ==
    [id |-> prefix \o "_" \o ToString(counter), type |-> type, content |-> content]
Typed(text) == [key |-> "str", value |-> text]

\* a welcome step that installs the message whenever the backend is up
Welcome_WheneverUp(s, backend_status) ==
    IF backend_status
    THEN [s EXCEPT !.message_counter = @ + 1,
                   !.chat_history =
                       <<Message("welcome", s.message_counter + 1, "bot", WelcomeAnswer)>>]
    ELSE s

\* the welcome message, added when the chat is empty and the backend is up
Welcome(s, backend_status) ==
    IF Len(s.chat_history) = 0 /\ backend_status
    THEN [s EXCEPT !.message_counter = @ + 1,
                   !.chat_history =
                       <<Message("welcome", s.message_counter + 1, "bot", WelcomeAnswer)>>]
    ELSE s

\* an exchange that keeps the answer of a failed request out of the history
Exchange_DropsErrors(s, q, response) ==
    [s EXCEPT !.message_counter = @ + 2,
              !.chat_history =
                  IF response.key = "error"
                  THEN Append(@, Message("user", s.message_counter + 1, "user", Typed(q)))
                  ELSE @ \o <<Message("user", s.message_counter + 1, "user", Typed(q)),
                              Message("bot", s.message_counter + 2, "bot", response)>>,
              !.run.posted = TRUE]

\* the user message, the request to the backend, the bot message
Exchange(s, q, response) ==
    [s EXCEPT !.message_counter = @ + 2,
              !.chat_history =
                  @ \o <<Message("user", s.message_counter + 1, "user", Typed(q)),
                         Message("bot", s.message_counter + 2, "bot", response)>>,
              !.run.posted = TRUE]

\* a send handling with no test of last_processed_question
SendHandling_NoDuplicateTest(s, user_question, response) ==
    IF Strip(user_question) # ""
    THEN Exchange([s EXCEPT !.last_processed_question = Some(user_question)],
                  user_question, response)
    ELSE s

\* the Send button was pressed with user_question in the text area
SendHandling(s, user_question, response) ==
    IF Strip(user_question) # "" /\ s.last_processed_question # Some(user_question)
    THEN Exchange([s EXCEPT !.last_processed_question = Some(user_question)],
                  user_question, response)
    ELSE s

\* the questions of the four quick action buttons
QuickQuestions ==
    {"What are the most interesting insights about survival on the Titanic?",
     "Analyze and compare survival rates between men and women with explanations",
     "Show me how passenger class affected survival chances with a chart",
     "Show me the age distribution and explain what it tells us about the passengers"}

\* a quick action button was pressed
QuickHandling(s, q, response) ==
    IF s.last_quick_action # Some(q)
    THEN Exchange([s EXCEPT !.last_quick_action = Some(q)], q, response)
    ELSE s

\* the Clear Chat History button, there when the history is not empty
ClearHandling(s) ==
    IF Len(s.chat_history) = 0 THEN s
    ELSE [s EXCEPT !.chat_history = <<>>, !.message_counter = 0,
                   !.last_processed_question = None, !.last_quick_action = None,
                   !.cleared = TRUE]

\* the session state at the start of a script run with these widget inputs
Starts(button, text, backend_status) ==
    [session EXCEPT !.run = [button |-> button, text |-> text,
                             backend_status |-> backend_status, posted |-> FALSE]]

\* what is typed into the text area
TypedTexts == {"", "  ", "How many passengers?", "How many passengers? "}

\* a run of the script with no button pressed: the page is opened, the text
\* area is edited, or st.rerun() runs it again
Rerun(backend_status) ==
    /\ session' = Welcome(Starts("none", "", backend_status), backend_status)
    /\ UNCHANGED <<file, loader, df, api_key, agent, pc, question, context_data,
                   agent_calls, llm_calls, ai_error, outcome, http, client,
                   dataset_resp, call, probe, repeat>>

\* a run with the Send button pressed; the button and the text area are on
\* the page, and are there again in this run, when the backend is up
Send(user_question, backend_status, o) ==
    /\ session.message_counter <= MaxCounter
    /\ session.run.backend_status
    /\ session' =
          IF backend_status
          THEN SendHandling(Welcome(Starts("send", user_question, backend_status),
                                    backend_status),
                            user_question, send_chat_request(o))
          ELSE Starts("send", user_question, backend_status)
    /\ UNCHANGED <<file, loader, df, api_key, agent, pc, question, context_data,
                   agent_calls, llm_calls, ai_error, outcome, http, client,
                   dataset_resp, call, probe, repeat>>

\* a run with a quick action button pressed
QuickAction(q, backend_status, o) ==
    /\ session.message_counter <= MaxCounter
    /\ session.run.backend_status
    /\ session' =
          IF backend_status
          THEN QuickHandling(Welcome(Starts("quick", q, backend_status), backend_status),
                             q, send_chat_request(o))
          ELSE Starts("quick", q, backend_status)
    /\ UNCHANGED <<file, loader, df, api_key, agent, pc, question, context_data,
                   agent_calls, llm_calls, ai_error, outcome, http, client,
                   dataset_resp, call, probe, repeat>>

\* a run with the Clear Chat History button pressed; the button is on the
\* page when the history was not empty
ClearChat(backend_status) ==
    /\ session.chat_history # <<>>
    /\ session' = ClearHandling(Welcome(Starts("clear", "", backend_status),
                                        backend_status))
    /\ UNCHANGED <<file, loader, df, api_key, agent, pc, question, context_data,
                   agent_calls, llm_calls, ai_error, outcome, http, client,
                   dataset_resp, call, probe, repeat>>

NextFrontend ==
    \/ \E b \in BOOLEAN : Rerun(b)
    \/ \E text \in TypedTexts, b \in BOOLEAN, o \in HttpOutcomes : Send(text, b, o)
    \/ \E q \in QuickQuestions, b \in BOOLEAN, o \in HttpOutcomes : QuickAction(q, b, o)
    \/ \E b \in BOOLEAN : ClearChat(b)

\* one browser session against a backend that is up or down at each run
InitFrontend == Init /\ df = Reference /\ api_key = ""

SpecFrontend == InitFrontend /\ [][NextFrontend]_vars

\* ---------------------------------------------------------------- claims

\* C1: POST /chat with a question that is empty or only whitespace is
\* answered with HTTP 400 'Question cannot be empty', and process_query is
\* not called for that request.
C1_EmptyQuestionIs400 ==
    (http # None /\ Strip(question) = "") =>
        /\ http[1].status = 400
        /\ http[1].detail = "Question cannot be empty"
        /\ agent_calls = 0

\* C2: for every question, AI outcome and table (loaded or empty),
\* process_query returns a result holding an answer; it never raises.
C2_ProcessQueryNeverRaises ==
    outcome # None => outcome[1].ok /\ "answer" \in DOMAIN outcome[1].value

\* C3: when the AI path raised, process_query ends exactly as
\* _process_without_ai does for the same question: same answer, data and
\* chart, nothing of the failure in it.
C3_FallbackIsNonAiResult ==
    (outcome # None /\ ai_error # None) =>
        outcome[1] = _process_without_ai(df, question)

C3_Witness ==
    /\ outcome # None
    /\ ai_error # None
    /\ llm_calls = 1
    /\ outcome[1].ok
    /\ outcome[1].value.chart_type # None

\* C4: with a credential configured and a hosted call that never responds,
\* the chat request still completes, and the caller receives the answer of
\* the Question Router for the question, not an error.
C4_HangingCallGetsRouterAnswer ==
    (client.result # None /\ pc = "llm") =>
        /\ "answer" \in DOMAIN client.result[1]
        /\ "error" \notin DOMAIN client.result[1]

\* C5: with an empty table every statistics-dependent operation reports an
\* explicit unavailable value: the /dataset endpoints answer 200 with the
\* error dict, and process_query returns data that is the error dict.
C5_EmptyTableReportsUnavailable ==
    Empty(df) =>
        /\ (dataset_resp # None /\ dataset_resp[1].path \in DatasetPaths) =>
              /\ dataset_resp[1].status = 200
              /\ "error" \in DOMAIN dataset_resp[1].body
        /\ outcome # None =>
              /\ outcome[1].ok
              /\ "error" \in DOMAIN outcome[1].value.data

\* C6: without a credential the agent is built with AI off, no hosted call
\* is ever made, and every question ends as _process_without_ai ends.
C6_NoCredentialNoHostedCall ==
    api_key = "" =>
        /\ ~TakesAiPath(agent)
        /\ pc # "llm"
        /\ llm_calls = 0
        /\ ai_error = None
        /\ outcome # None => outcome[1] = _process_without_ai(df, question)

C6_Witness ==
    /\ api_key = ""
    /\ agent_calls = 1
    /\ outcome # None
    /\ outcome[1].ok

\* C7: a question causes at most one hosted call, and once the AI path has
\* failed no hosted call is in progress or made again for the question.
C7_AtMostOneHostedCall ==
    /\ llm_calls <= 1
    /\ ai_error # None => pc # "llm"

C7_Witness ==
    /\ ai_error # None
    /\ ai_error[1] \in AiErrors
    /\ llm_calls = 1
    /\ outcome # None

\* the topics in the order the claim C8 names, and the keyword set of each
TopicOrder == <<"counts", "gender", "age", "fare", "embarkation", "class">>

TopicWords(topic) ==
    CASE topic = "counts" -> CountWords
      [] topic = "gender" -> GenderWords
      [] topic = "age" -> AgeWords
      [] topic = "fare" -> FareWords
      [] topic = "embarkation" -> EmbarkWords
      [] topic = "class" -> ClassWords

\* the results that carry the answer template and the data of a topic
GenderResults(d, gs) ==
    IF gs.ok THEN {GenderPercentageAnswer(d, gs.value), GenderSurvivalAnswer(gs.value)}
    ELSE {}

AgeResults(as) == IF as.ok THEN {AgeAnswer(as.value)} ELSE {}

TopicResults(d, topic) ==
    CASE topic = "counts" -> {CountAnswer(d)}
      [] topic = "gender" -> GenderResults(d, get_survival_by_gender(d))
      [] topic = "age" -> AgeResults(get_age_statistics(d))
      [] topic = "fare" -> {FareAnswer(get_basic_stats(d))}
      [] topic = "embarkation" -> {EmbarkAnswer(d, get_embarkation_stats(d))}
      [] topic = "class" -> {ClassAnswer(get_survival_by_class(d))}
      [] OTHER -> {DefaultAnswer(d)}

\* what a topic asks of the question beyond a keyword of its set
FurtherCondition(topic, ql) ==
    CASE topic = "counts" -> Contains(ql, "passenger")
      [] topic = "gender" -> \/ Contains(ql, "percentage") /\ Contains(ql, "male")
                             \/ Contains(ql, "survival")
      [] topic = "age" -> Contains(ql, "average")
      [] OTHER -> TRUE

KeywordTopics(ql) == {i \in DOMAIN TopicOrder : AnyIn(TopicWords(TopicOrder[i]), ql)}

AnsweringTopics(ql) == {i \in KeywordTopics(ql) : FurtherCondition(TopicOrder[i], ql)}

\* the first topic of a set of positions of TopicOrder, "default" for none
FirstTopic(S) ==
    IF S = {} THEN "default"
    ELSE TopicOrder[CHOOSE i \in S : \A j \in S : i <= j]

AnswerQuestionReturned ==
    /\ call # None
    /\ call[1].fn = "answer_question"
    /\ call[1].outcome.ok

\* C8 as stated: a result of answer_question is the answer template and the
\* data of the first topic, in the order counts, gender, age, fare,
\* embarkation, class, that has a keyword occurring in the lower-cased
\* question.
C8_FirstKeywordTopicAnswers ==
    AnswerQuestionReturned =>
        call[1].outcome \in
            TopicResults(df, FirstTopic(KeywordTopics(Lower(call[1].question))))

\* C8 amended: a result of answer_question is the answer template and the
\* data of the first topic, in that order, that has a keyword occurring in
\* the lower-cased question and whose further condition holds (counts:
\* 'passenger'; gender: 'percentage' with 'male', or 'survival'; age:
\* 'average'); with no such topic it is the default answer with basic stats.
C8_FirstAnsweringTopicAnswers ==
    AnswerQuestionReturned =>
        call[1].outcome \in
            TopicResults(df, FirstTopic(AnsweringTopics(Lower(call[1].question))))

\* a keyword of a topic occurs, its further condition fails, and a later
\* topic or the default answered
C8_Witness ==
    /\ AnswerQuestionReturned
    /\ FirstTopic(KeywordTopics(Lower(call[1].question)))
         # FirstTopic(AnsweringTopics(Lower(call[1].question)))
    /\ FirstTopic(AnsweringTopics(Lower(call[1].question))) # "default"

\* the decision table the claim C9 states, first row first
GenderKeywords == {"gender", "male", "female"}

ChartRow(i, ql) ==
    CASE i = 1 -> AnyIn(viz_keywords, ql) /\ Contains(ql, "age")
      [] i = 2 -> AnyIn(viz_keywords, ql) /\ AnyIn({"class", "survival"}, ql)
      [] i = 3 -> AnyIn(viz_keywords, ql) /\ AnyIn(GenderKeywords, ql)
      [] i = 4 -> Contains(ql, "age") /\ Contains(ql, "distribution")
      [] i = 5 -> Contains(ql, "class") /\ AnyIn({"survival", "survive"}, ql)
      [] i = 6 -> AnyIn(GenderKeywords, ql) /\ Contains(ql, "survival")

RowKind ==
    <<"age_histogram", "survival_by_class", "gender_survival",
      "age_histogram", "survival_by_class", "gender_survival">>

RowsMatching(ql) == {i \in DOMAIN RowKind : ChartRow(i, ql)}

TableKind(ql) ==
    IF RowsMatching(ql) = {} THEN "none"
    ELSE RowKind[CHOOSE i \in RowsMatching(ql) : \A j \in RowsMatching(ql) : i <= j]

\* the outcome of a call follows the table's kind: that kind is returned
\* with its chart, or its renderer raised; no chart where no row matches
FollowsTable(d, kind, out) ==
    IF out.ok
    THEN /\ out.value.chart_type = (IF kind = "none" THEN None ELSE Some(kind))
         /\ (out.value.chart_html = None) <=> (kind = "none")
    ELSE kind # "none" /\ out = Render(d, kind)

\* C9: _determine_chart_type decides by the fixed table: with a
\* visualization keyword, age_histogram for 'age', else survival_by_class
\* for 'class' or 'survival', else gender_survival for a gender keyword;
\* failing that, age_histogram for 'age' with 'distribution', else
\* survival_by_class for 'class' with 'survival'/'survive', else
\* gender_survival for a gender keyword with 'survival'; else no chart. The
\* first matching row wins.
C9_ChartFollowsDecisionTable ==
    (call # None /\ call[1].fn = "_determine_chart_type" /\ call[1].ai_response.isstr) =>
        FollowsTable(df, TableKind(Lower(call[1].question)), call[1].outcome)

\* a visualization keyword with both a class/survival and a gender keyword:
\* the class row wins
C9_Witness ==
    /\ call # None
    /\ call[1].fn = "_determine_chart_type"
    /\ call[1].ai_response.isstr
    /\ {2, 3} \subseteq RowsMatching(Lower(call[1].question))
    /\ call[1].outcome.ok
    /\ call[1].outcome.value.chart_type = Some("survival_by_class")

\* C10: for one dataset, two calls of _determine_chart_type with the same
\* question text have the same outcome, the same chart kind included,
\* whatever the AI response texts and the calls made in between.
C10_SameQuestionSameChart ==
    (/\ probe # None
     /\ repeat # None
     /\ repeat[1].same
     /\ probe[1].ai_response.isstr
     /\ repeat[1].ai_response.isstr) =>
        repeat[1].outcome = probe[1].outcome

C10_Witness ==
    /\ probe # None
    /\ repeat # None
    /\ repeat[1].same
    /\ probe[1].ai_response.isstr
    /\ repeat[1].ai_response.isstr
    /\ probe[1].ai_response # repeat[1].ai_response
    /\ probe[1].outcome.ok
    /\ probe[1].outcome.value.chart_type # None
    /\ repeat[1].outcome.value.chart_type = probe[1].outcome.value.chart_type

\* process_query without AI returned a result for a question that
\* answer_question answers through its gender survival branch
GenderSurvivalAnswered ==
    /\ call # None
    /\ call[1].fn = "process_query"
    /\ call[1].outcome.ok
    /\ FirstTopic(AnsweringTopics(Lower(call[1].question))) = "gender"
    /\ ~(Contains(Lower(call[1].question), "percentage")
           /\ Contains(Lower(call[1].question), "male"))

\* the answer holds the female and the male rate of get_survival_by_gender
HoldsBothRates(answer, gs) ==
    /\ Contains(answer, "Female survival rate: " \o Fmt1(gs.female_survival_rate) \o "%")
    /\ Contains(answer, "Male survival rate: " \o Fmt1(gs.male_survival_rate) \o "%")

\* C11 as stated: with AI disabled, a question answered through the gender
\* survival branch gets a sentence with the female and the male survival
\* percentage of get_survival_by_gender, and chart_type gender_survival.
C11_GenderAnswerWithGenderChart ==
    GenderSurvivalAnswered =>
        /\ HoldsBothRates(call[1].outcome.value.answer, get_survival_by_gender(df).value)
        /\ call[1].outcome.value.chart_type = Some("gender_survival")

\* the chart of a question in which a gender keyword and 'survival' occur
GenderSurvivalChart(ql) ==
    IF AnyIn(viz_keywords, ql)
    THEN (IF Contains(ql, "age") THEN "age_histogram" ELSE "survival_by_class")
    ELSE IF Contains(ql, "age") /\ Contains(ql, "distribution") THEN "age_histogram"
    ELSE IF Contains(ql, "class") THEN "survival_by_class"
    ELSE "gender_survival"

\* C11 amended: the sentence holds both percentages, and chart_type is
\* gender_survival unless an earlier row of the chart table matches: with a
\* visualization keyword it is age_histogram for 'age' and survival_by_class
\* otherwise; without one it is age_histogram for 'age' with 'distribution'
\* and survival_by_class for 'class'.
C11_GenderAnswerWithTableChart ==
    GenderSurvivalAnswered =>
        /\ HoldsBothRates(call[1].outcome.value.answer, get_survival_by_gender(df).value)
        /\ call[1].outcome.value.chart_type
             = Some(GenderSurvivalChart(Lower(call[1].question)))

C11_Witness ==
    /\ GenderSurvivalAnswered
    /\ AnyIn(viz_keywords, Lower(call[1].question))
    /\ call[1].outcome.value.chart_type = Some("survival_by_class")

\* a statistics function returned on a table that is not empty
StatReturned(fn) ==
    /\ call # None
    /\ call[1].fn = fn
    /\ call[1].outcome.ok
    /\ ~Empty(df)

\* the sum of the per-category passenger counts in a result
CategorySum(fn, v) ==
    CASE fn = "get_survival_by_gender" -> v.total_male + v.total_female
      [] fn = "get_survival_by_class" -> SumFn([k \in DOMAIN v |-> v[k].total])
      [] fn = "get_age_statistics" ->
            v.age_ranges.children_0_12 + v.age_ranges.teens_13_19
                + v.age_ranges.adults_20_59 + v.age_ranges.seniors_60_plus
      [] fn = "get_embarkation_stats" -> SumFn([k \in DOMAIN v |-> v[k].count])

GroupingFunctions == StatFunctions \ {"get_basic_stats"}

\* the rows a dimension has a category for
Categorised(d, fn) ==
    CASE fn = "get_age_statistics" -> {i \in DOMAIN d : d[i].Age # NoAge}
      [] fn = "get_embarkation_stats" -> {i \in DOMAIN d : d[i].Embarked # "nan"}
      [] OTHER -> DOMAIN d

\* C12 as stated: for a non-empty table and each of sex, class, age bucket
\* and port, the per-category counts of the statistics function sum to
\* total_passengers.
C12_CountsSumToTotal ==
    \A fn \in GroupingFunctions :
        StatReturned(fn) =>
            CategorySum(fn, call[1].outcome.value) = get_basic_stats(df).total_passengers

\* C12 amended: the counts by sex and by class sum to total_passengers; the
\* age bucket counts sum to the number of passengers with a known age, and
\* the port counts to the number of passengers with a known port.
C12_CountsSumToCategorised ==
    \A fn \in GroupingFunctions :
        StatReturned(fn) =>
            CategorySum(fn, call[1].outcome.value) = Cardinality(Categorised(df, fn))

\* a passenger without a port is in no port's count
C12_Witness ==
    /\ StatReturned("get_embarkation_stats")
    /\ CategorySum("get_embarkation_stats", call[1].outcome.value)
         < get_basic_stats(df).total_passengers
    /\ CategorySum("get_embarkation_stats", call[1].outcome.value) > 0

\* the four age ranges, and the ages (in units of 1/AgeDen year) of each
AgeRanges == {"children_0_12", "teens_13_19", "adults_20_59", "seniors_60_plus"}

InAgeRange(b, a) ==
    CASE b = "children_0_12" -> a <= Years(12)
      [] b = "teens_13_19" -> Years(12) < a /\ a <= Years(19)
      [] b = "adults_20_59" -> Years(19) < a /\ a <= Years(59)
      [] b = "seniors_60_plus" -> Years(59) < a

\* the passengers counted in an age range
CountedIn(d, b) == {i \in DOMAIN d : d[i].Age # NoAge /\ InAgeRange(b, d[i].Age[1])}

\* C13: the four age-range counts of get_age_statistics partition the
\* passengers with a known age: each is in exactly one range, a passenger
\* with a missing age in none, and the counts sum to the number of known ages.
C13_AgeRangesPartitionKnownAges ==
    (call # None /\ call[1].fn = "get_age_statistics" /\ call[1].outcome.ok) =>
        /\ \A b \in AgeRanges :
              call[1].outcome.value.age_ranges[b] = Cardinality(CountedIn(df, b))
        /\ \A i \in DOMAIN df :
              Cardinality({b \in AgeRanges : i \in CountedIn(df, b)})
                  = (IF df[i].Age = NoAge THEN 0 ELSE 1)
        /\ CategorySum("get_age_statistics", call[1].outcome.value)
              = Cardinality({i \in DOMAIN df : df[i].Age # NoAge})

\* a table with an age on a range limit and a missing age
C13_Witness ==
    /\ call # None
    /\ call[1].fn = "get_age_statistics"
    /\ call[1].outcome.ok
    /\ \E i \in DOMAIN df : df[i].Age = NoAge
    /\ \E i \in DOMAIN df : df[i].Age = Age(Years(12))
    /\ CategorySum("get_age_statistics", call[1].outcome.value) = Len(df) - 1

\* the float x is the ratio n / m
IsRatio(x, n, m) == ~IsNaN(x) /\ x.num * m = n * x.den

\* C14: on a non-empty table get_basic_stats returns total_passengers = the
\* number of rows, rows with a missing age included, survivors = the number
\* of rows with Survived = 1, and survival_rate = 100 * survivors /
\* total_passengers; 342 of 891 reads 38.4 at one decimal.
C14_BasicStatsCountsAndRate ==
    StatReturned("get_basic_stats") =>
        /\ call[1].outcome.value.total_passengers = Len(df)
        /\ call[1].outcome.value.survivors
              = Cardinality({i \in DOMAIN df : df[i].Survived = 1})
        /\ IsRatio(call[1].outcome.value.survival_rate,
                   100 * call[1].outcome.value.survivors,
                   call[1].outcome.value.total_passengers)
        /\ Fmt1(Float(100 * 342, 891)) = "38.4"

\* survivors and victims, one of them with a missing age
C14_Witness ==
    /\ StatReturned("get_basic_stats")
    /\ \E i \in DOMAIN df : df[i].Age = NoAge
    /\ call[1].outcome.value.survivors > 0
    /\ call[1].outcome.value.survivors < call[1].outcome.value.total_passengers
    /\ call[1].outcome.value.total_passengers = MaxRows

\* C15: GET / and GET /health report dataset_loaded = true exactly when the
\* table loaded non-empty, and a status other than healthy whenever the
\* load failed.
C15_HealthReportsDegraded ==
    (dataset_resp # None /\ dataset_resp[1].path \in HealthPaths) =>
        /\ dataset_resp[1].body.dataset_loaded = ~Empty(df)
        /\ Empty(df) => dataset_resp[1].body.status # "healthy"

AnswerQuestionRan ==
    /\ outcome' # None
    /\ outcome' # outcome
    /\ ~TakesAiPath(agent) \/ ai_error' # None

\* C17: after the load no step of the service changes the table: not
\* chat() on the AI path, on the fallback path or without AI, not the
\* health and /dataset endpoints, in any order of requests; and a step in
\* which answer_question runs makes no hosted call.
C17_TableIsNeverModified ==
    [][/\ df' = df
       /\ AnswerQuestionRan => llm_calls' = llm_calls]_vars

\* questions answered and endpoints served, and the table is still the one
\* that was loaded from the file
C17_Witness ==
    /\ outcome # None
    /\ outcome[1].ok
    /\ ai_error # None
    /\ dataset_resp # None
    /\ df # <<>>
    /\ file = CsvFile(df)

\* C18: on every non-empty table, tables without one sex, one class or one
\* port and tables with every age missing included, each statistics
\* function returns a result and does not raise.
C18_StatisticsNeverRaise ==
    (call # None /\ call[1].fn \in StatFunctions /\ ~Empty(df)) => call[1].outcome.ok

\* process_query returned from the try block of _process_with_ai
HostedCallSucceeded ==
    /\ outcome # None
    /\ TakesAiPath(agent)
    /\ llm_calls = 1
    /\ ai_error = None

\* every entry of the dict part is in the dict whole
HasEntries(whole, part) ==
    \A k \in DOMAIN part : k \in DOMAIN whole /\ whole[k] = part[k]

\* C19: after a successful hosted call process_query returns the model's
\* text as answer, the gathered statistics as data, the entries of
\* get_basic_stats always among them, and the chart _determine_chart_type
\* chooses for the question.
C19_AiResultIsTextStatsAndChart ==
    HostedCallSucceeded =>
        /\ outcome[1].ok
        /\ outcome[1].value.answer \in {c.text : c \in {x \in AiContents : x.isstr}}
        /\ outcome[1].value.data = GatherContext(df, question).value
        /\ HasEntries(outcome[1].value.data, get_basic_stats(df))
        /\ outcome[1].value.chart_type
              = _determine_chart_type(df, question, PyStr("")).value.chart_type
        /\ outcome[1].value.chart_html
              = _determine_chart_type(df, question, PyStr("")).value.chart_html

\* an age question with a visualization keyword: age statistics and basic
\* stats in data, the age histogram attached
C19_Witness ==
    /\ HostedCallSucceeded
    /\ "age_ranges" \in DOMAIN outcome[1].value.data
    /\ "total_passengers" \in DOMAIN outcome[1].value.data
    /\ outcome[1].value.chart_type = Some("age_histogram")

\* the topics whose statistics _process_with_ai may gather, and the
\* statistics of each
GatheredTopics == {"gender", "class", "age", "embarkation"}

TopicStats(d, topic) ==
    CASE topic = "gender" -> get_survival_by_gender(d)
      [] topic = "class" -> get_survival_by_class(d)
      [] topic = "age" -> get_age_statistics(d)
      [] topic = "embarkation" -> get_embarkation_stats(d)

\* the statistics s of a topic, some entry at least, are in context_data
Gathered(data, s) == s.ok /\ DOMAIN s.value # {} /\ HasEntries(data, s.value)

\* C20: on a loaded table, _process_with_ai gathers the gender, class, age
\* and embarkation statistics exactly when the keyword set answer_question
\* has for the topic has a member occurring in the lower-cased question.
C20_GathersByRouterKeywords ==
    (/\ call # None
     /\ call[1].fn = "_process_with_ai"
     /\ call[1].outcome.ok
     /\ ~Empty(df)) =>
        \A topic \in GatheredTopics :
            Gathered(call[1].outcome.value, TopicStats(df, topic))
                <=> AnyIn(TopicWords(topic), Lower(call[1].question))

\* C21: a question whose lower-cased text holds no keyword of the counts,
\* gender, age, fare, embarkation and class sets is answered with the
\* generic capability description, and get_basic_stats() as data.
C21_NoKeywordGetsDefault ==
    (/\ call # None
     /\ call[1].fn = "answer_question"
     /\ KeywordTopics(Lower(call[1].question)) = {}) =>
        /\ call[1].outcome.ok
        /\ call[1].outcome.value.answer
              = "I can help you analyze the Titanic dataset. Try asking about passenger demographics, survival rates, ages, fares, or embarkation ports."
        /\ call[1].outcome.value.data = get_basic_stats(df)

C21_Witness ==
    /\ call # None
    /\ call[1].fn = "answer_question"
    /\ KeywordTopics(Lower(call[1].question)) = {}
    /\ call[1].question # ""
    /\ call[1].outcome.ok
    /\ "total_passengers" \in DOMAIN call[1].outcome.value.data

\* the table without its row i
WithoutRow(d, i) == [j \in 1..(Len(d) - 1) |-> IF j < i THEN d[j] ELSE d[j + 1]]

\* get_age_statistics assigns the passenger of row i to the age range b:
\* the count of b is one more than it is without the row
AssignedTo(d, i, b) ==
    AgeStats(AgeData(d)).age_ranges[b]
        = AgeStats(AgeData(WithoutRow(d, i))).age_ranges[b] + 1

\* the ranges with the seniors starting after the age limit (in years)
RangeOf(b, a, limit) ==
    CASE b = "children_0_12" -> 0 <= a /\ a <= Years(12)
      [] b = "teens_13_19" -> Years(12) < a /\ a <= Years(19)
      [] b = "adults_20_59" -> Years(19) < a /\ a <= Years(59)
      [] b = "seniors_60_plus" -> a > Years(limit)

AssignedByRanges(limit) ==
    (call # None /\ call[1].fn = "get_age_statistics" /\ call[1].outcome.ok) =>
        /\ call[1].outcome.value = AgeStats(AgeData(df))
        /\ \A i \in DOMAIN df : \A b \in AgeRanges :
              df[i].Age # NoAge =>
                  (AssignedTo(df, i, b) <=> RangeOf(b, df[i].Age[1], limit))

\* C22 as stated: a known age a is assigned to children iff 0 <= a <= 12,
\* to teens iff 12 < a <= 19, to adults iff 19 < a <= 59 and to seniors iff
\* a > 60, non-integer ages and the limits 12, 19, 59, 60 included.
C22_SeniorsAbove60 == AssignedByRanges(60)

\* C22 amended: as stated, but to seniors iff a > 59; an age of 60, and an
\* age between 59 and 60, is a senior's.
C22_SeniorsAbove59 == AssignedByRanges(59)

\* a passenger aged 60 and one aged between 59 and 60, both seniors
C22_Witness ==
    /\ call # None
    /\ call[1].fn = "get_age_statistics"
    /\ call[1].outcome.ok
    /\ \E i \in DOMAIN df : df[i].Age = Age(Years(60))
    /\ \E i \in DOMAIN df : df[i].Age # NoAge /\ Years(59) < df[i].Age[1]
                               /\ df[i].Age[1] < Years(60)
    /\ call[1].outcome.value.age_ranges.seniors_60_plus = 2

\* download_titanic_dataset has returned False in this call of
\* load_titanic_data
DownloadReturnedFalse ==
    loader.pc = "done" /\ loader.downloads = 1 /\ ~loader.download_ok

\* C26: download_titanic_dataset returns True only when a file is there, and
\* whenever it returned False no file is there afterwards, so that a later
\* load downloads again and reads no leftover file.
C26_FailedDownloadLeavesNoFile ==
    /\ loader.download_ok => file # Absent
    /\ DownloadReturnedFalse => file = Absent

\* the number of male passengers of the table
MaleCount(d) == Cardinality({i \in DOMAIN d : d[i].Sex = "male"})

\* the result is the male passenger count and the male share of all
\* passengers
IsMaleShare(d, result) ==
    /\ result.answer = ToString(MaleCount(d)) \o " passengers were male, which is "
                          \o Fmt1(Float(100 * MaleCount(d), Len(d)))
                          \o "% of all passengers."
    /\ result.data.total_male = MaleCount(d)

\* answer_question returned, for a question with 'percentage' and one of
\* the words, which its counts branch did not answer
PercentageAsked(words) ==
    /\ call # None
    /\ call[1].fn = "answer_question"
    /\ call[1].outcome.ok
    /\ AnyIn(words, Lower(call[1].question))
    /\ Contains(Lower(call[1].question), "percentage")
    /\ ~(AnyIn(CountWords, Lower(call[1].question))
           /\ Contains(Lower(call[1].question), "passenger"))

\* C30 as stated: a question with a gender keyword (male, female, gender) and
\* 'percentage', not answered by the counts branch, gets the male count and
\* the male share of all passengers.
C30_GenderKeywordWithPercentage ==
    PercentageAsked(GenderWords) => IsMaleShare(df, call[1].outcome.value)

\* C30 amended: a question in which 'male' occurs (in male or in female) and
\* 'percentage', not answered by the counts branch, gets the male count and
\* the male share of all passengers, with 'survival' in it or not.
C30_MaleWithPercentage ==
    PercentageAsked({"male"}) => IsMaleShare(df, call[1].outcome.value)

\* a question naming only 'female', with 'survival' and 'percentage', got
\* the male share
C30_Witness ==
    /\ PercentageAsked({"male"})
    /\ Lower(call[1].question) = "female survival percentage "
    /\ IsMaleShare(df, call[1].outcome.value)
    /\ MaleCount(df) > 0

\* the chart of a result: the chart_type of process_query, the figure of
\* get_ai_response
ChartOf(asked) ==
    IF asked.fn = "process_query" THEN asked.outcome.value.chart_type
    ELSE asked.outcome.value.chart

\* C24: for one dataset and one question, process_query yields the same
\* chart_type with AI disabled, with a hosted call that succeeds whatever it
\* returns, and with one that fails and falls back; and get_ai_response of
\* the Streamlit AI variant the same chart with the model absent, a
\* successful generation and an exception.
C24_ChartDependsOnQuestionOnly ==
    (/\ probe # None
     /\ repeat # None
     /\ probe[1].outcome.ok
     /\ repeat[1].outcome.ok) =>
        ChartOf(repeat[1]) = ChartOf(probe[1])

\* one question with a chart, first with AI off and then answered by the
\* hosted model
C24_Witness ==
    /\ probe # None
    /\ repeat # None
    /\ probe[1].outcome.ok
    /\ repeat[1].outcome.ok
    /\ ~probe[1].ai
    /\ repeat[1].ai
    /\ repeat[1].llm.ok
    /\ repeat[1].llm.value.isstr
    /\ repeat[1].outcome.value.answer = repeat[1].llm.value.text
    /\ probe[1].outcome.value.chart_type # None
    /\ ChartOf(repeat[1]) = ChartOf(probe[1])

\* the chart of a result is the HTML its own rendering function makes of
\* the table
OwnRendering(d, result) ==
    CASE result.chart_type = Some("age_histogram") ->
            result.chart_html = Some(create_age_histogram_plotly(d).value)
      [] result.chart_type = Some("survival_by_class") ->
            result.chart_html = Some(create_survival_by_class_chart(d).value)
      [] result.chart_type = Some("gender_survival") ->
            result.chart_html = Some(create_gender_survival_chart(d).value)
      [] OTHER -> result.chart_type = None /\ result.chart_html = None

\* C25: in every result process_query returns, chart_html is non-null iff
\* chart_type is, and chart_type is null or one of age_histogram,
\* survival_by_class, gender_survival, the HTML being the one of that
\* kind's own rendering function.
C25_ChartHtmlIffChartType ==
    (outcome # None /\ outcome[1].ok) =>
        /\ outcome[1].value.chart_html # None <=> outcome[1].value.chart_type # None
        /\ outcome[1].value.chart_type \in
              {None, Some("age_histogram"), Some("survival_by_class"),
               Some("gender_survival")}
        /\ OwnRendering(df, outcome[1].value)

\* a result with the gender chart, after a hosted call
C25_Witness ==
    /\ outcome # None
    /\ outcome[1].ok
    /\ llm_calls = 1
    /\ outcome[1].value.chart_type = Some("gender_survival")
    /\ outcome[1].value.chart_html # None

\* the history after a step holds the history before it, in front
Extends(after, before) ==
    /\ Len(after) >= Len(before)
    /\ SubSeq(after, 1, Len(before)) = before

\* C23: every step of the front-end either appends messages at the end of
\* chat_history, leaving the entries there and their order as they are, or
\* (Clear) empties it; the welcome message is installed only into an empty
\* history.
C23_HistoryIsAppendOnly ==
    [][/\ \/ Extends(session'.chat_history, session.chat_history)
          \/ session'.chat_history = <<>> /\ session'.run.button = "clear"
       /\ \A i \in DOMAIN session'.chat_history \ DOMAIN session.chat_history :
             session'.chat_history[i].content = WelcomeAnswer =>
                 session.chat_history = <<>> /\ i = 1]_vars

\* a history that grew by an exchange behind the welcome message, in a
\* session cleared before
C23_Witness ==
    /\ session.cleared
    /\ Len(session.chat_history) = 3
    /\ session.chat_history[1].content = WelcomeAnswer
    /\ session.run.posted

\* C27: in the history of the API front-end every user message is followed
\* at once by exactly one bot message, whatever the backend call came to,
\* and the only bot message with no user message before it is the welcome
\* message at position 1.
C27_UserThenOneBot ==
    \A i \in DOMAIN session.chat_history :
        /\ session.chat_history[i].type = "user" =>
              /\ i < Len(session.chat_history)
              /\ session.chat_history[i + 1].type = "bot"
              /\ i + 2 <= Len(session.chat_history) =>
                    session.chat_history[i + 2].type = "user"
        /\ (/\ session.chat_history[i].type = "bot"
            /\ i = 1 \/ session.chat_history[i - 1].type # "user") =>
              /\ i = 1
              /\ session.chat_history[i].content = WelcomeAnswer

\* a typed question and a quick action, answered by a timeout and by an
\* error status
C27_Witness ==
    /\ Len(session.chat_history) = 5
    /\ session.chat_history[1].content = WelcomeAnswer
    /\ session.chat_history[2].type = "user"
    /\ session.chat_history[3].content
          = Error("Request timed out. The server might be busy processing your request.")
    /\ session.chat_history[4].content.value \in QuickQuestions
    /\ session.chat_history[5].content.key = "error"

\* C28: a typed submission equal to last_processed_question appends nothing
\* and posts nothing, and last_processed_question changes only when another
\* typed question is processed or the chat is cleared; the same for a quick
\* action and last_quick_action.
C28_NoRepeatedQuestion ==
    [][/\ (/\ session'.run.button = "send"
           /\ session.last_processed_question = Some(session'.run.text)) =>
              /\ session'.chat_history = session.chat_history
              /\ ~session'.run.posted
       /\ (/\ session'.run.button = "quick"
           /\ session.last_quick_action = Some(session'.run.text)) =>
              /\ session'.chat_history = session.chat_history
              /\ ~session'.run.posted
       /\ session'.last_processed_question # session.last_processed_question =>
              \/ /\ session'.run.button = "send"
                 /\ session'.run.posted
                 /\ session'.last_processed_question = Some(session'.run.text)
              \/ /\ session'.run.button = "clear"
                 /\ session'.last_processed_question = None
       /\ session'.last_quick_action # session.last_quick_action =>
              \/ /\ session'.run.button = "quick"
                 /\ session'.run.posted
                 /\ session'.last_quick_action = Some(session'.run.text)
              \/ /\ session'.run.button = "clear"
                 /\ session'.last_quick_action = None]_vars

\* the question sent last was submitted again, with the backend up, and
\* nothing was posted
C28_Witness ==
    /\ session.run.button = "send"
    /\ session.run.backend_status
    /\ session.last_processed_question = Some(session.run.text)
    /\ ~session.run.posted
    /\ Len(session.chat_history) = 3

\* C29: the ids of the messages in chat_history are pairwise distinct, also
\* after Clear has set message_counter to 0 and the welcome message is there
\* again.
C29_MessageIdsDistinct ==
    \A i, j \in DOMAIN session.chat_history :
        i # j => session.chat_history[i].id # session.chat_history[j].id

\* after a clear: the welcome message and two exchanges, numbered from 1
C29_Witness ==
    /\ session.cleared
    /\ Len(session.chat_history) = 5
    /\ session.chat_history[1].id = "welcome_1"
    /\ session.chat_history[2].id = "user_2"
    /\ session.chat_history[4].type = "user"
    /\ session.chat_history[5].id = "bot_5"
====
